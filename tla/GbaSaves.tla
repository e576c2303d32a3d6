------------------------------ MODULE GbaSaves ------------------------------
(***************************************************************************)
(* The saves of GBA games on an expansion pack in slot 2 (gbaloader.cpp,   *)
(* sram.cpp, main.cpp:249-290, rominfownd.cpp:470-480).                    *)
(*                                                                         *)
(* The pack has two places for a game, PSRAM (lost when the console is     *)
(* switched off) and NOR flash, and a battery-backed SRAM of which one     *)
(* range of pages, here a bank, belongs to each place.  A third bank at    *)
(* page 0 is where an older menu kept the save of the PSRAM game; a sign   *)
(* at its start says it has been taken over.  An INI file on the card      *)
(* remembers whose save each bank holds.  A save reaches its .sav file     *)
(* only when another game is put in its place, or at the next start of     *)
(* the menu.  The power can go, and the card can refuse a write, between   *)
(* any two steps.                                                          *)
(***************************************************************************)
EXTENDS Naturals, FiniteSets

CONSTANTS Games,     \* GBA files on the card
          Big,       \* those of more than MAX_PSRAM bytes: NOR only
          LongNamed, \* those whose path has more than 251 characters
          None,      \* no game
          MaxPlays   \* bound: how often each game is saved

ASSUME GamesAssumption ==
    /\ Big \subseteq Games /\ LongNamed \subseteq Games
    /\ None \notin Games /\ MaxPlays \in Nat

VARIABLES pc,      \* what the console executes
          job,     \* the load in progress, and the INI file as it has it in memory
          bank,    \* contents of the SRAM banks
          sign,    \* the sign at page 0
          file,    \* the .sav files
          ini,     \* the INI file on the card
          rom,     \* contents of PSRAM and NOR
          mapped,  \* the place slot 2 shows to a game
          ram,     \* the bank slot 2 shows to a game
          plays,   \* history: how often each game has been saved
          exposed, \* history: events after which a save may be lost
          swept    \* history: the boot has just stored the saves

vars == <<pc, job, bank, sign, file, ini, rom, mapped, ram, plays, exposed, swept>>

Places == {"psram", "nor"}
Banks  == Places \cup {"old", "stray"}  \* "stray": pages in the middle of a bank
Blank  == [game |-> None, play |-> 0]
Saves  == {Blank} \cup [game : Games, play : 1..MaxPlays]
\* a .sav file, and the save a bank gets from it
NoFile   == [state |-> "none",  save |-> Blank]
Short    == [state |-> "short", save |-> Blank]  \* no data behind the header
Whole(s) == [state |-> "whole", save |-> s]
Junk   == "junk"         \* a ROM that is not whole, and so no game

ASSUME JunkAssumption == Junk \notin Games

\* game, the place it goes to, whether it is started then; the game stored
\* first; the INI file in memory, and where to go on when it is saved
NoJob  == [game |-> None, to |-> "nor", force |-> FALSE, start |-> FALSE, old |-> None,
           mem |-> [p \in Places |-> None], then |-> "menu"]

TypeOK ==
    /\ pc \in {"off", "sweep", "sweepTorn", "sweepNor", "sweepNorTorn", "menu",
               "legacy", "legacyTorn", "switch", "store", "storeTorn", "fetch",
               "fetchBlanked", "ini", "iniTorn", "rom", "romTorn", "game"}
    /\ job.game \in Games \cup {None} /\ job.old \in Games \cup {None}
    /\ bank \in [Banks -> Saves]
    /\ sign \in BOOLEAN
    /\ file \in [Games -> {NoFile, Short} \cup {Whole(s) : s \in Saves}]
    /\ ini \in [Places -> Games \cup {None}]
    /\ rom \in [Places -> Games \cup {None, Junk}]
    /\ mapped \in Places \cup {"browser"}
    /\ plays \in [Games -> 0..MaxPlays]
    /\ ram \in Places \cup {"stray"}
    /\ exposed \subseteq {"cut", "refused", "rom", "legacy", "stray"}
    /\ swept \in BOOLEAN

-----------------------------------------------------------------------------
\* cSram

\* SaveFileName: a path that is too long has no save file at all.
HasSaveFile(g) == g \in Games \ LongNamed

\* The bank after LoadSramFromFile has run to its end: a file that is missing
\* or short leaves the bank blank, a name that is too long leaves it alone.
Fetched(g, b) ==
    IF HasSaveFile(g) THEN file[g].save ELSE b

\* Opening for writing empties the file before the pages are read.
Truncated(g) == IF HasSaveFile(g) THEN [file EXCEPT ![g] = Short] ELSE file

\* The data follows, unless memory or the card refuses it: nobody looks.
Stored(g, b, ok) ==
    IF HasSaveFile(g) /\ ok THEN [file EXCEPT ![g] = Whole(bank[b])] ELSE file

\* CreateDefaultFile: a header for a game that has no file yet.
WithDefaultFile(g) ==
    IF HasSaveFile(g) /\ file[g] = NoFile THEN [file EXCEPT ![g] = Short] ELSE file


-----------------------------------------------------------------------------
Init ==
    /\ pc = "menu" /\ job = NoJob /\ file = [g \in Games |-> NoFile]
    /\ mapped = "nor" /\ ram = "nor" /\ exposed = {} /\ swept = FALSE
    /\ rom = [p \in Places |-> None]
    \* a new pack, or one an older menu has left the save of a PSRAM game on
    /\ \/ /\ sign \in BOOLEAN /\ plays = [g \in Games |-> 0]
          /\ bank = [b \in Banks |-> Blank]
          /\ ini = [p \in Places |-> None]
       \/ \E g \in Games \ Big :
             /\ sign = FALSE /\ MaxPlays > 0
             /\ plays = [h \in Games |-> IF h = g THEN 1 ELSE 0]
             /\ bank = [b \in Banks |->
                           IF b = "old" THEN [game |-> g, play |-> 1] ELSE Blank]
             /\ ini = [p \in Places |-> IF p = "psram" THEN g ELSE None]

-----------------------------------------------------------------------------
\* The INI file: opening it for writing empties it, the lines follow.

IniOpen ==
    /\ pc = "ini"
    /\ ini' = [p \in Places |-> None]
    /\ pc' = "iniTorn"
    /\ UNCHANGED <<job, bank, sign, file, rom, mapped, ram, plays, exposed, swept>>

IniLines ==
    /\ pc = "iniTorn"
    /\ ini' = job.mem
    /\ pc' = job.then
    /\ UNCHANGED <<job, bank, sign, file, rom, mapped, ram, plays, exposed, swept>>

\* SaveSramToFile in two steps: whose save, from which bank, and what is next.
StoreOpen(g, next) ==
    /\ file' = Truncated(g)
    /\ pc' = next
    /\ UNCHANGED <<bank, sign, ini, rom, mapped, plays, exposed, swept>>

StoreData(g, b, ok) ==
    /\ file' = Stored(g, b, ok)
    /\ exposed' = IF ok \/ ~HasSaveFile(g) THEN exposed ELSE exposed \cup {"refused"}
    /\ ram' = "stray"  \* the pages are switched one by one
    /\ UNCHANGED <<bank, ini, rom, mapped, plays>>

-----------------------------------------------------------------------------
\* The start of the menu: with gbaAutoSave set it first stores the saves of the
\* last games.  It looks at the banks of this menu only, not at page 0.
Boot(autoSave) ==
    /\ pc = "off"
    /\ job' = [NoJob EXCEPT !.mem = ini]
    /\ mapped' = "nor" /\ ram' = "nor"
    /\ pc' = IF ~autoSave THEN "menu"
             ELSE IF ini["psram"] # None THEN "sweep" ELSE "sweepNor"
    /\ exposed' = IF autoSave /\ ~sign /\ ini["psram"] # None
                  THEN exposed \cup {"legacy"} ELSE exposed
    /\ swept' = FALSE
    /\ UNCHANGED <<bank, sign, file, ini, rom, plays>>

SweepOpen ==
    /\ pc = "sweep"
    /\ StoreOpen(job.mem["psram"], "sweepTorn")
    /\ UNCHANGED <<job, ram>>

\* The name is cleared in the INI file whether or not the save was written.
SweepData(ok) ==
    /\ pc = "sweepTorn"
    /\ StoreData(job.mem["psram"], "psram", ok)
    /\ job' = [job EXCEPT !.mem["psram"] = None, !.then = "sweepNor"]
    /\ pc' = "ini"
    /\ UNCHANGED <<sign, swept>>

\* The NOR game stays in its place: its file is only brought up to date, and
\* only if there is one and it differs from the bank.
\* mutant: the file that is there counts as up to date
NorFileNeverStale == FALSE

NorFileStale ==
    LET g == job.mem["nor"] IN
    /\ g # None /\ HasSaveFile(g) /\ file[g] # NoFile
    /\ bank["nor"] # file[g].save

SweepNor ==
    /\ pc = "sweepNor" /\ NorFileStale
    /\ StoreOpen(job.mem["nor"], "sweepNorTorn")
    /\ UNCHANGED <<job, ram>>

SweepNorData(ok) ==
    /\ pc = "sweepNorTorn"
    /\ StoreData(job.mem["nor"], "nor", ok)
    /\ pc' = "menu" /\ swept' = TRUE
    /\ UNCHANGED <<job, sign>>

SweepNorSame ==
    /\ pc = "sweepNor" /\ ~NorFileStale
    /\ pc' = "menu" /\ swept' = TRUE
    \* comparing a file with the bank has read the bank page by page
    /\ ram' = IF job.mem["nor"] # None /\ HasSaveFile(job.mem["nor"])
                 /\ file[job.mem["nor"]] # NoFile
              THEN "stray" ELSE ram
    /\ UNCHANGED <<job, bank, sign, file, ini, rom, mapped, plays, exposed>>

-----------------------------------------------------------------------------
\* Load: of a game that was opened, copied (to PSRAM) or flashed (to NOR).
\* Only a file of more than MAX_PSRAM bytes asks for NOR by its size; the test
\* for MAX_NOR comes after that one and is never reached.
Load(g, force, start) ==
    /\ pc = "menu"
    /\ job' = [NoJob EXCEPT !.game = g, !.force = force, !.start = start,
                            !.to = IF g \in Big THEN "nor" ELSE "psram", !.mem = ini]
    /\ mapped' = "nor" /\ ram' = "nor"  \* SoftReset
    /\ pc' = IF ~sign THEN "legacy" ELSE "switch"
    /\ swept' = FALSE
    /\ UNCHANGED <<bank, sign, file, ini, rom, plays, exposed>>

\* StoreOldSave: without the sign the save of the PSRAM game is still the one at
\* page 0.
LegacyOpen ==
    /\ pc = "legacy" /\ job.mem["psram"] # None
    /\ StoreOpen(job.mem["psram"], "legacyTorn")
    /\ UNCHANGED <<job, ram>>

LegacyData(ok) ==
    /\ pc = "legacyTorn"
    /\ StoreData(job.mem["psram"], "old", ok)
    /\ sign' = TRUE
    /\ job' = [job EXCEPT !.mem["psram"] = None, !.then = "switch"]
    /\ pc' = "ini"
    /\ UNCHANGED swept

LegacyNone ==
    /\ pc = "legacy" /\ job.mem["psram"] = None
    /\ sign' = TRUE
    /\ pc' = "switch"
    /\ UNCHANGED <<job, bank, file, ini, rom, mapped, ram, plays, exposed, swept>>

\* The switch of LoadInternal.
InPsram == job.mem["psram"] = job.game
InNor   == job.mem["nor"] = job.game

\* mutant: a game that moves to NOR takes the NOR game's name with its own save
SwitchToForeign ==
    /\ pc = "switch"
    /\ ~InNor /\ (job.force \/ ~InPsram)
    /\ LET to == IF job.force THEN "nor" ELSE job.to IN
       job' = [job EXCEPT !.to = to, !.old = job.mem[to], !.then = "rom"]
    /\ pc' = "store"
    /\ UNCHANGED <<bank, sign, file, ini, rom, mapped, ram, plays, exposed, swept>>

\* case 0: to PSRAM; cases 1, 8 and 9: to NOR; cases 10 and 11: from PSRAM to NOR
SwitchTo ==
    /\ pc = "switch"
    /\ ~InNor /\ (job.force \/ ~InPsram)
    /\ LET to == IF job.force THEN "nor" ELSE job.to IN
       job' = [job EXCEPT !.to = to, !.old = job.mem[IF InPsram THEN "psram" ELSE to],
                          !.then = "rom"]
    /\ pc' = "store"
    /\ UNCHANGED <<bank, sign, file, ini, rom, mapped, ram, plays, exposed, swept>>

\* cases 2 and 3: the game is the PSRAM game already
SwitchReload ==
    /\ pc = "switch"
    /\ ~InNor /\ InPsram /\ ~job.force
    /\ job' = [job EXCEPT !.to = "psram"]
    /\ pc' = "rom"
    /\ UNCHANGED <<bank, sign, file, ini, rom, mapped, ram, plays, exposed, swept>>

\* cases 4-7 and 12-15: the game is the NOR game already
SwitchStart ==
    /\ pc = "switch" /\ InNor
    /\ mapped' = "nor" /\ ram' = "nor"
    /\ pc' = IF job.start THEN "game" ELSE "menu"
    /\ UNCHANGED <<job, bank, sign, file, ini, rom, plays, exposed, swept>>

\* The save of the game that goes is stored.  A game that moves from PSRAM to
\* NOR is stored first, and its name forgotten; the NOR game comes after it.
Store ==
    /\ pc = "store" /\ job.old # None
    /\ StoreOpen(job.old, "storeTorn")
    /\ UNCHANGED <<job, ram>>

StoreRest(ok) ==
    LET moved == InPsram IN
    /\ pc = "storeTorn"
    /\ StoreData(job.old, IF moved THEN "psram" ELSE job.to, ok)
    /\ job' = IF moved THEN [job EXCEPT !.mem["psram"] = None, !.old = job.mem["nor"]]
                       ELSE job
    /\ pc' = IF moved THEN "store" ELSE "fetch"
    /\ UNCHANGED <<sign, swept>>

\* mutant: the game that goes is not stored
StoreSkipped ==
    /\ pc = "store"
    /\ pc' = "fetch"
    /\ UNCHANGED <<job, bank, sign, file, ini, rom, mapped, ram, plays, exposed, swept>>

StoreNone ==
    /\ pc = "store" /\ job.old = None
    /\ pc' = "fetch"
    /\ UNCHANGED <<job, bank, sign, file, ini, rom, mapped, ram, plays, exposed, swept>>

\* LoadSramFromFile: the bank is blanked, then filled.
FetchBlank ==
    /\ pc = "fetch"
    /\ bank' = IF HasSaveFile(job.game) THEN [bank EXCEPT ![job.to] = Blank] ELSE bank
    /\ pc' = "fetchBlanked"
    /\ UNCHANGED <<job, sign, file, ini, rom, mapped, ram, plays, exposed, swept>>

\* mutant: the bank stays blank
FetchNothing ==
    /\ pc = "fetchBlanked"
    /\ job' = [job EXCEPT !.mem[job.to] = job.game]
    /\ pc' = "ini"
    /\ UNCHANGED <<bank, sign, file, ini, rom, mapped, ram, plays, exposed, swept>>

FetchData ==
    /\ pc = "fetchBlanked"
    /\ bank' = [bank EXCEPT ![job.to] = Fetched(job.game, @)]
    /\ job' = [job EXCEPT !.mem[job.to] = job.game]
    /\ pc' = "ini"
    /\ UNCHANGED <<sign, file, ini, rom, mapped, ram, plays, exposed, swept>>

\* LoadPSRAM, LoadNor: no memory or no file leave the place as it is.
RomFails ==
    /\ pc = "rom"
    /\ mapped' = job.to /\ ram' = job.to
    /\ pc' = "menu"
    /\ exposed' = exposed \cup {"rom"}
    /\ UNCHANGED <<job, bank, sign, file, ini, rom, plays, swept>>

RomStart ==
    /\ pc = "rom"
    /\ rom' = [rom EXCEPT ![job.to] = Junk]
    /\ pc' = "romTorn"
    /\ UNCHANGED <<job, bank, sign, file, ini, mapped, ram, plays, exposed, swept>>

\* The ROM is whole and patched; InitPSRAM or InitNor shows it, StartGBA boots it.
RomDone ==
    /\ pc = "romTorn"
    /\ rom' = [rom EXCEPT ![job.to] = job.game]
    /\ file' = WithDefaultFile(job.game)
    /\ mapped' = job.to /\ ram' = job.to
    /\ pc' = IF job.start THEN "game" ELSE "menu"
    /\ UNCHANGED <<job, bank, sign, ini, plays, exposed, swept>>

-----------------------------------------------------------------------------
\* The slot 2 row of the main list starts whatever the pack shows.
StartSlot2 ==
    /\ pc = "menu"
    /\ mapped \in Places /\ rom[mapped] \in Games
    /\ exposed' = IF ram = "stray" THEN exposed \cup {"stray"} ELSE exposed
    /\ pc' = "game"
    /\ UNCHANGED <<job, bank, sign, file, ini, rom, mapped, ram, plays, swept>>

\* The expansion window: OK resets the pack, RAM turns it into memory.
ExpOK ==
    /\ pc = "menu"
    /\ mapped' = "nor" /\ ram' = "nor"
    /\ UNCHANGED <<pc, job, bank, sign, file, ini, rom, plays, exposed, swept>>

ExpRAM ==
    /\ pc = "menu"
    /\ mapped' = "browser" /\ ram' = "nor"
    /\ rom' = [rom EXCEPT !["psram"] = Junk]
    /\ UNCHANGED <<pc, job, bank, sign, file, ini, plays, exposed, swept>>

\* The game saves into the bank it is shown.
Play ==
    LET g == rom[mapped] IN
    /\ pc = "game" /\ g \in Games /\ plays[g] < MaxPlays
    /\ plays' = [plays EXCEPT ![g] = @ + 1]
    /\ bank' = [bank EXCEPT ![ram] = [game |-> g, play |-> plays[g] + 1]]
    /\ UNCHANGED <<pc, job, sign, file, ini, rom, mapped, ram, exposed, swept>>

\* The console is switched off, by the user at any time or by its battery.  Off
\* between the arrival of a new save in a bank and the end of the INI file that
\* says so, the INI file misnames the bank, or names none.
Misnamed == pc \in {"fetchBlanked", "iniTorn"} \/ (pc = "ini" /\ job.then # "sweepNor")
TornRom  == pc \in {"rom", "romTorn"}

PowerOff ==
    /\ pc # "off"
    /\ pc' = "off"
    /\ job' = NoJob
    /\ rom' = [rom EXCEPT !["psram"] = Junk]
    /\ exposed' = exposed \cup (IF Misnamed THEN {"cut"} ELSE {})
                          \cup (IF TornRom THEN {"rom"} ELSE {})
    /\ UNCHANGED <<bank, sign, file, ini, mapped, ram, plays, swept>>

Next ==
    \/ \E autoSave \in BOOLEAN : Boot(autoSave)
    \/ SweepOpen \/ SweepNor \/ SweepNorSame \/ IniOpen \/ IniLines
    \/ \E ok \in BOOLEAN : SweepData(ok) \/ SweepNorData(ok) \/ LegacyData(ok) \/ StoreRest(ok)
    \/ \E g \in Games :
          \/ Load(g, FALSE, TRUE)           \* mainwnd.cpp:510
          \/ Load(g, TRUE, FALSE)           \* pressFlash
          \/ g \notin Big /\ Load(g, FALSE, FALSE)  \* pressCopy
    \/ LegacyOpen \/ LegacyNone \/ SwitchTo \/ SwitchReload \/ SwitchStart
    \/ Store \/ StoreNone \/ FetchBlank \/ FetchData
    \/ RomFails \/ RomStart \/ RomDone
    \/ StartSlot2 \/ ExpOK \/ ExpRAM \/ Play \/ PowerOff

Spec == Init /\ [][Next]_vars

-----------------------------------------------------------------------------
\* Properties

\* The newest save of a game, and where a start of that game would look for it.
Newest(g)  == [game |-> g, play |-> plays[g]]
InBank(g)  == \E p \in Places : ini[p] = g /\ bank[p] = Newest(g)
InFile(g)  == file[g].save = Newest(g)

\* What a game has saved is kept through every order of loads, copies, flashes,
\* restarts and power cuts that does not meet one of the listed weak spots:
\* it is in the bank the INI file names for the game, or in the game's file, or
\* (left by an older menu) at page 0.  While the INI file is being rewritten the
\* copy in memory counts.
NewestKept ==
    exposed = {} =>
        \A g \in Games \ LongNamed :
            plays[g] > 0 =>
                \/ InBank(g) \/ InFile(g)
                \/ ~sign /\ ini["psram"] = g /\ bank["old"] = Newest(g)
                \/ pc \in {"ini", "iniTorn"} /\
                   \E p \in Places : job.mem[p] = g /\ bank[p] = Newest(g)

\* No file ever receives the save of another game.
FilesPure ==
    exposed = {} => \A g \in Games : file[g].save.game \in {None, g}

\* A game is started with its own newest save, or, if it has none, with a blank bank.
StartsOnOwnSave ==
    (pc = "game" /\ exposed = {} /\ rom[mapped] \in Games \ LongNamed) =>
        bank[ram] = IF plays[rom[mapped]] = 0 THEN Blank ELSE Newest(rom[mapped])

\* After a start with gbaAutoSave no save is left in the PSRAM bank only.
SweptIntoFiles ==
    (swept /\ pc = "menu" /\ exposed = {}) =>
        /\ ini["psram"] = None
        /\ \A g \in Games \ LongNamed :
              plays[g] > 0 => InFile(g) \/ (ini["nor"] = g /\ file[g] = NoFile)
=============================================================================
