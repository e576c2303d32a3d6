----------------------------- MODULE GbaProofs -----------------------------
(***************************************************************************)
(* What is proved of GBA games: their saves, the NOR writer and the        *)
(* patcher.                                                                *)
(*                                                                         *)
(* Saves (GbaSaves): none is lost or given to another game, for any games, *)
(* sizes and names, any number of saves, and any order of starts, copies,  *)
(* flashes, restarts and losses of power that meets none of the listed     *)
(* weak spots (exposed = {}).  While the sign is set, the names in force   *)
(* (Names) tell the truth about the banks (BankInv), and a game that no    *)
(* place is named for has its newest save in its file (KeptInv).  Each     *)
(* step of a load keeps both because of what the steps before it have      *)
(* stored (JobInv).                                                        *)
(*                                                                         *)
(* Writer (GbaNorWriter): what the buffer does not hide is in the flash    *)
(* (WriterInv).                                                            *)
(*                                                                         *)
(* Patcher (GbaPatch): its writes fit the writer, so that they arrive      *)
(* (ArriveInv).  Its tables say the same as the stores it has replaced     *)
(* (TablesInv); of the writes still to come, the last one that touches the *)
(* start of a jump, a literal or an activation puts there what the jump    *)
(* needs (LandInv), since writes for different things do not overlap.      *)
(***************************************************************************)
EXTENDS GbaSaves, GbaPatch, TLAPS

Named == Games \ LongNamed  \* games that can have a .sav file
NoOrGame == Games \cup {None}
Jobs == [game : NoOrGame, to : Places, force : BOOLEAN, start : BOOLEAN, old : NoOrGame,
         mem : [Places -> NoOrGame], then : {"menu", "sweepNor", "switch", "rom"}]
Contents == [game : NoOrGame, play : Nat]
Files == [state : {"none", "short", "whole"}, save : Contents]

\* Types, with those of the job's fields, which the proof needs.
Typed ==
    /\ pc \in {"off", "sweep", "sweepTorn", "sweepNor", "sweepNorTorn", "menu",
               "legacy", "legacyTorn", "switch", "store", "storeTorn", "fetch",
               "fetchBlanked", "ini", "iniTorn", "rom", "romTorn", "game"}
    /\ job \in Jobs /\ bank \in [Banks -> Contents] /\ sign \in BOOLEAN
    /\ file \in [Games -> Files] /\ ini \in [Places -> NoOrGame]
    /\ rom \in [Places -> NoOrGame \cup {Junk}] /\ mapped \in Places \cup {"browser"}
    /\ ram \in Places \cup {"stray"} /\ plays \in [Games -> Nat] /\ swept \in BOOLEAN

Newest0(g) == IF plays[g] = 0 THEN Blank ELSE Newest(g)
StoredUp(g) == g \in Named => file[g].save = Newest0(g)
Apart(m) == m["psram"] = m["nor"] => m["nor"] = None
Without(m) == [m EXCEPT !["psram"] = None]

\* From the bank's new save to the end of the INI file the names in force are
\* those in memory; the bank being filled has no name in force.
AtIni == pc \in {"ini", "iniTorn"}
Names == IF AtIni \/ pc = "fetchBlanked" THEN job.mem ELSE ini
Filling(p) == pc = "fetchBlanked" /\ p = job.to

\* No game has both places.
NamesApart == Apart(ini) /\ Apart(job.mem)

\* A bank with a name in force holds that game's newest save.
BankInv ==
    sign => \A p \in Places :
               Names[p] \in Named /\ ~Filling(p) => bank[p] = Newest0(Names[p])

\* A game without a bank has its newest save in its file.
KeptInv ==
    sign => \A g \in Named :
               StoredUp(g) \/ \E p \in Places : Names[p] = g /\ ~Filling(p)

FileInv == \A g \in Games : file[g].save.game \in {None, g}

\* Without the sign no game has been loaded: the only save is the older menu's.
LegacyInv == ~sign =>
    /\ pc \in {"off", "menu", "legacy", "legacyTorn", "sweepNor"}
    /\ ini["nor"] = None /\ \A p \in Places : rom[p] \notin Games
    /\ \A h \in Games : IF ini["psram"] = h THEN plays[h] > 0 /\ bank["old"] = Newest(h)
                        ELSE plays[h] = 0 /\ file[h].save = Blank

\* What a load has still to store: the PSRAM save of a game that moves to NOR
\* and of the game in its way, or of the game in its way only.
MovePending ==
    /\ job.mem = ini
    /\ IF ini["psram"] = job.game THEN job.to = "nor" /\ job.old = job.game
       ELSE job.old = ini[job.to]
Moved == job.to = "nor" /\ ini["psram"] = job.game /\ job.mem = Without(ini)

\* What each step of a boot and of a load may rely on.
JobInv ==
    /\ pc \in {"sweep", "sweepTorn", "sweepNor", "sweepNorTorn", "legacy", "legacyTorn", "switch",
               "rom", "romTorn"} => job.mem = ini
    /\ pc \in {"sweep", "sweepTorn"} => sign /\ ini["psram"] # None
    /\ pc \in {"sweepNor", "sweepNorTorn"} => ini["psram"] = None
    /\ pc = "sweepNorTorn" => ini["nor"] \in Named
    /\ pc \in {"legacy", "legacyTorn"} => ~sign
    /\ pc = "legacyTorn" => ini["psram"] # None
    /\ pc \in {"legacy", "legacyTorn", "switch", "store", "storeTorn", "fetch", "fetchBlanked",
               "rom", "romTorn"} => job.game \in Games
    /\ AtIni => job.then # "menu"
    /\ AtIni /\ job.then # "sweepNor" => job.game \in Games
    /\ AtIni /\ job.then = "sweepNor" => job.mem["psram"] = None
    /\ AtIni /\ job.then = "rom" => job.mem[job.to] = job.game
    /\ pc = "ini" /\ job.then = "sweepNor" => job.mem = Without(ini)
    /\ pc = "ini" /\ job.then = "sweepNor" /\ ini["psram"] \in Named =>
         bank["psram"] = Newest0(ini["psram"])
    /\ pc \in {"rom", "romTorn"} => ini[job.to] = job.game
    /\ pc \in {"store", "storeTorn", "fetch", "fetchBlanked"} =>
          job.mem["nor"] # job.game /\ job.then = "rom"
    /\ pc \in {"store", "storeTorn"} =>
          MovePending \/ (Moved /\ job.old = ini["nor"] /\ StoredUp(job.game))
    /\ pc = "storeTorn" => job.old # None
    /\ pc = "fetch" => (job.mem = ini /\ ini["psram"] # job.game) \/ Moved
    /\ pc = "fetch" => StoredUp(job.game) /\ StoredUp(job.mem[job.to])
    /\ pc = "fetchBlanked" => job.mem = ini \/ Moved
    /\ pc = "fetchBlanked" => job.mem["psram"] # job.game /\ StoredUp(job.game)

\* What slot 2 shows agrees with the names, but for the ROM being written.
RomPending == pc \in {"rom", "romTorn"} \/ (AtIni /\ job.then = "rom")
RomInv ==
    /\ rom["nor"] = Names["nor"] \/ (RomPending /\ job.to = "nor")
    /\ mapped = "psram" => pc \in {"off", "menu", "game"}
    /\ mapped = "psram" /\ rom["psram"] \in Games => rom["psram"] = ini["psram"]
    /\ mapped \in Places /\ ram # "stray" => ram = mapped
    /\ pc = "game" => mapped \in Places /\ ram = mapped /\ rom[mapped] \in Games
SweptInv == (swept => pc \in {"menu", "game", "off"}) /\ SweptIntoFiles

Clean == NamesApart /\ FileInv /\ BankInv /\ KeptInv /\ LegacyInv /\ JobInv /\ RomInv /\ SweptInv
SaveInv == Typed /\ (exposed = {} => Clean)

-----------------------------------------------------------------------------
(* One lemma for each action: what it preserves while nothing is exposed *)

LEMMA BootClean ==
    ASSUME Typed, Clean, NEW autoSave \in BOOLEAN, Boot(autoSave), exposed' = {}
    PROVE  Clean'
<1> USE GamesAssumption, JunkAssumption
    DEF Typed, Jobs, Places, Banks, NoOrGame, Boot, NoJob
<1>1. NamesApart'
  BY DEF Clean, NamesApart, Apart
<1>2. FileInv'
  BY DEF Clean, FileInv
<1>3. BankInv'
  BY DEF Clean, BankInv, Names, AtIni, Filling, Newest0, Newest, Named
<1>4. KeptInv'
  BY DEF Clean, KeptInv, Names, AtIni, Filling, StoredUp, Newest0, Newest, Named
<1>5. LegacyInv'
  BY DEF Clean, LegacyInv, Newest
<1>6. JobInv'
  BY DEF Clean, JobInv, AtIni, MovePending, Moved, Without, StoredUp, Newest0, Newest,
         Named
<1>7. RomInv'
  BY DEF Clean, RomInv, RomPending, AtIni, Names
<1>8. SweptInv'
  BY DEF Clean, SweptInv, SweptIntoFiles, InFile, Newest
<1> QED
  BY <1>1, <1>2, <1>3, <1>4, <1>5, <1>6, <1>7, <1>8 DEF Clean

LEMMA SweepOpenClean ==
    ASSUME Typed, Clean, SweepOpen, exposed' = {}
    PROVE  Clean'
<1> USE GamesAssumption, JunkAssumption
    DEF Typed, Jobs, Places, Banks, NoOrGame, SweepOpen, StoreOpen, Truncated, HasSaveFile,
        Short, NoFile, Files, Contents, Blank
<1>1. NamesApart'
  BY DEF Clean, NamesApart, Apart
<1>2. FileInv'
  BY DEF Clean, FileInv
<1>3. BankInv'
  BY DEF Clean, BankInv, Names, AtIni, Filling, Newest0, Newest, Named
<1>4. KeptInv'
  BY DEF Clean, KeptInv, Names, AtIni, Filling, StoredUp, Newest0, Newest, Named, JobInv,
         MovePending, Moved, Without
<1>5. LegacyInv'
  BY DEF Clean, LegacyInv, Newest
<1>6. JobInv'
  BY DEF Clean, JobInv, AtIni, MovePending, Moved, Without, StoredUp, Newest0, Newest,
         Named
<1>7. RomInv'
  BY DEF Clean, RomInv, RomPending, AtIni, Names
<1>8. SweptInv'
  BY DEF Clean, SweptInv, SweptIntoFiles, InFile, Newest
<1> QED
  BY <1>1, <1>2, <1>3, <1>4, <1>5, <1>6, <1>7, <1>8 DEF Clean

LEMMA SweepDataClean ==
    ASSUME Typed, Clean, NEW ok \in BOOLEAN, SweepData(ok), exposed' = {}
    PROVE  Clean'
<1> USE GamesAssumption, JunkAssumption
    DEF Typed, Jobs, Places, Banks, NoOrGame, SweepData, StoreData, Stored, HasSaveFile,
        Whole, NoFile, Files, Contents
<1>1. NamesApart'
  BY DEF Clean, NamesApart, Apart
<1>2. FileInv'
  BY DEF Clean, FileInv, BankInv, Names, AtIni, Filling, Newest0, Newest, Named, JobInv, Blank
<1>3. BankInv'
  BY DEF Clean, BankInv, Names, AtIni, Filling, Newest0, Newest, Named, JobInv,
         MovePending, Moved, Without, StoredUp
<1>4. KeptInv'
  <2>1. sign /\ job.mem = ini /\ ini["psram"] # None
    BY DEF Clean, JobInv
  <2>2. StoredUp(ini["psram"])'
    BY <2>1 DEF Clean, BankInv, Names, AtIni, Filling, StoredUp, Newest0, Newest, Named
  <2> QED
    BY <2>1, <2>2 DEF Clean, KeptInv, Names, AtIni, Filling, StoredUp, Newest0, Newest, Named
<1>5. LegacyInv'
  BY DEF Clean, LegacyInv, Newest
<1>6. JobInv'
  BY DEF Clean, JobInv, AtIni, MovePending, Moved, Without, StoredUp, Newest0, Newest,
         Named, NamesApart, Apart, FileInv, BankInv, Names, Filling, KeptInv, LegacyInv,
         RomInv, RomPending, SweptInv, SweptIntoFiles, InFile
<1>7. RomInv'
  BY DEF Clean, RomInv, RomPending, AtIni, Names, JobInv, MovePending, Moved, Without,
         StoredUp, Newest0, Newest, Named
<1>8. SweptInv'
  BY DEF Clean, SweptInv, SweptIntoFiles, InFile, Newest
<1> QED
  BY <1>1, <1>2, <1>3, <1>4, <1>5, <1>6, <1>7, <1>8 DEF Clean

LEMMA SweepNorClean ==
    ASSUME Typed, Clean, SweepNor, exposed' = {}
    PROVE  Clean'
<1> USE GamesAssumption, JunkAssumption
    DEF Typed, Jobs, Places, Banks, NoOrGame, SweepNor, StoreOpen, NorFileStale, Truncated,
        HasSaveFile, Short, NoFile, Files, Contents, Blank
<1>1. NamesApart'
  BY DEF Clean, NamesApart, Apart
<1>2. FileInv'
  BY DEF Clean, FileInv
<1>3. BankInv'
  BY DEF Clean, BankInv, Names, AtIni, Filling, Newest0, Newest, Named
<1>4. KeptInv'
  BY DEF Clean, KeptInv, Names, AtIni, Filling, StoredUp, Newest0, Newest, Named, JobInv,
         MovePending, Moved, Without
<1>5. LegacyInv'
  BY DEF Clean, LegacyInv, Newest, JobInv, AtIni, MovePending, Moved, Without, StoredUp,
         Newest0, Named
<1>6. JobInv'
  BY DEF Clean, JobInv, AtIni, MovePending, Moved, Without, StoredUp, Newest0, Newest,
         Named
<1>7. RomInv'
  BY DEF Clean, RomInv, RomPending, AtIni, Names
<1>8. SweptInv'
  BY DEF Clean, SweptInv, SweptIntoFiles, InFile, Newest
<1> QED
  BY <1>1, <1>2, <1>3, <1>4, <1>5, <1>6, <1>7, <1>8 DEF Clean

LEMMA SweepNorDataClean ==
    ASSUME Typed, Clean, NEW ok \in BOOLEAN, SweepNorData(ok), exposed' = {}
    PROVE  Clean'
<1> USE GamesAssumption, JunkAssumption
    DEF Typed, Jobs, Places, Banks, NoOrGame, SweepNorData, StoreData, Stored, HasSaveFile,
        Whole, NoFile, Files, Contents
<1>1. NamesApart'
  BY DEF Clean, NamesApart, Apart
<1>2. FileInv'
  BY DEF Clean, FileInv, BankInv, Names, AtIni, Filling, Newest0, Newest, Named, LegacyInv,
         JobInv, Blank
<1>3. BankInv'
  BY DEF Clean, BankInv, Names, AtIni, Filling, Newest0, Newest, Named
<1>4. KeptInv'
  BY DEF Clean, KeptInv, Names, AtIni, Filling, StoredUp, Newest0, Newest, Named, JobInv,
         MovePending, Moved, Without
<1>5. LegacyInv'
  BY DEF Clean, LegacyInv, Newest
<1>6. JobInv'
  BY DEF Clean, JobInv, AtIni, MovePending, Moved, Without, StoredUp, Newest0, Newest,
         Named
<1>7. RomInv'
  BY DEF Clean, RomInv, RomPending, AtIni, Names
<1>8. SweptInv'
  <2>1. job.mem = ini /\ ini["psram"] = None /\ ini["nor"] \in Named
    BY DEF Clean, JobInv
  <2>2. sign
    BY <2>1 DEF Clean, LegacyInv, Named
  <2>3. StoredUp(ini["nor"])'
    BY <2>1, <2>2 DEF Clean, BankInv, Names, AtIni, Filling, StoredUp, Newest0, Newest, Named
  <2>4. ASSUME NEW g \in Named, g # ini["nor"] PROVE StoredUp(g)'
    BY <2>1, <2>2, <2>4 DEF Clean, KeptInv, Names, AtIni, Filling, StoredUp, Newest0, Newest, Named
  <2> QED
    BY <2>1, <2>3, <2>4 DEF SweptInv, SweptIntoFiles, InFile, StoredUp, Newest0, Named
<1> QED
  BY <1>1, <1>2, <1>3, <1>4, <1>5, <1>6, <1>7, <1>8 DEF Clean

LEMMA SweepNorSameClean ==
    ASSUME Typed, Clean, SweepNorSame, exposed' = {}
    PROVE  Clean'
<1> USE GamesAssumption, JunkAssumption
    DEF Typed, Jobs, Places, Banks, NoOrGame, SweepNorSame, NorFileStale, HasSaveFile
<1>1. NamesApart'
  BY DEF Clean, NamesApart, Apart
<1>2. FileInv'
  BY DEF Clean, FileInv
<1>3. BankInv'
  BY DEF Clean, BankInv, Names, AtIni, Filling, Newest0, Newest, Named
<1>4. KeptInv'
  BY DEF Clean, KeptInv, Names, AtIni, Filling, StoredUp, Newest0, Newest, Named
<1>5. LegacyInv'
  BY DEF Clean, LegacyInv, Newest
<1>6. JobInv'
  BY DEF Clean, JobInv, AtIni, MovePending, Moved, Without, StoredUp, Newest0, Newest,
         Named
<1>7. RomInv'
  BY DEF Clean, RomInv, RomPending, AtIni, Names
<1>8. SweptInv'
  BY DEF Clean, SweptInv, SweptIntoFiles, InFile, Newest, NamesApart, Apart, FileInv,
         BankInv, Names, AtIni, Filling, Newest0, Named, KeptInv, StoredUp, LegacyInv,
         JobInv, MovePending, Moved, Without, RomInv, RomPending
<1> QED
  BY <1>1, <1>2, <1>3, <1>4, <1>5, <1>6, <1>7, <1>8 DEF Clean

LEMMA IniOpenClean ==
    ASSUME Typed, Clean, IniOpen, exposed' = {}
    PROVE  Clean'
<1> USE GamesAssumption, JunkAssumption
    DEF Typed, Jobs, Places, Banks, NoOrGame, IniOpen
<1>1. NamesApart'
  BY DEF Clean, NamesApart, Apart
<1>2. FileInv'
  BY DEF Clean, FileInv
<1>3. BankInv'
  BY DEF Clean, BankInv, Names, AtIni, Filling, Newest0, Newest, Named
<1>4. KeptInv'
  BY DEF Clean, KeptInv, Names, AtIni, Filling, StoredUp, Newest0, Newest, Named
<1>5. LegacyInv'
  BY DEF Clean, LegacyInv, Newest
<1>6. JobInv'
  BY DEF Clean, JobInv, AtIni, MovePending, Moved, Without, StoredUp, Newest0, Newest,
         Named
<1>7. RomInv'
  BY DEF Clean, RomInv, RomPending, AtIni, Names
<1>8. SweptInv'
  BY DEF Clean, SweptInv, SweptIntoFiles, InFile, Newest
<1> QED
  BY <1>1, <1>2, <1>3, <1>4, <1>5, <1>6, <1>7, <1>8 DEF Clean

LEMMA IniLinesClean ==
    ASSUME Typed, Clean, IniLines, exposed' = {}
    PROVE  Clean'
<1> USE GamesAssumption, JunkAssumption
    DEF Typed, Jobs, Places, Banks, NoOrGame, IniLines
<1>1. NamesApart'
  BY DEF Clean, NamesApart, Apart
<1>2. FileInv'
  BY DEF Clean, FileInv
<1>3. BankInv'
  BY DEF Clean, BankInv, Names, AtIni, Filling, Newest0, Newest, Named
<1>4. KeptInv'
  BY DEF Clean, KeptInv, Names, AtIni, Filling, StoredUp, Newest0, Newest, Named
<1>5. LegacyInv'
  BY DEF Clean, LegacyInv, Newest
<1>6. JobInv'
  BY DEF Clean, JobInv, AtIni, MovePending, Moved, Without, StoredUp, Newest0, Newest,
         Named
<1>7. RomInv'
  BY DEF Clean, RomInv, RomPending, AtIni, Names
<1>8. SweptInv'
  BY DEF Clean, SweptInv, SweptIntoFiles, InFile, Newest
<1> QED
  BY <1>1, <1>2, <1>3, <1>4, <1>5, <1>6, <1>7, <1>8 DEF Clean

LEMMA LoadClean ==
    ASSUME Typed, Clean, NEW g \in Games, NEW force \in BOOLEAN,
        NEW start \in BOOLEAN,
           Load(g, force, start), exposed' = {}
    PROVE  Clean'
<1> USE GamesAssumption, JunkAssumption
    DEF Typed, Jobs, Places, Banks, NoOrGame, Load, NoJob
<1>1. NamesApart'
  BY DEF Clean, NamesApart, Apart
<1>2. FileInv'
  BY DEF Clean, FileInv
<1>3. BankInv'
  BY DEF Clean, BankInv, Names, AtIni, Filling, Newest0, Newest, Named
<1>4. KeptInv'
  BY DEF Clean, KeptInv, Names, AtIni, Filling, StoredUp, Newest0, Newest, Named
<1>5. LegacyInv'
  BY DEF Clean, LegacyInv, Newest
<1>6. JobInv'
  BY DEF Clean, JobInv, AtIni, MovePending, Moved, Without, StoredUp, Newest0, Newest,
         Named
<1>7. RomInv'
  BY DEF Clean, RomInv, RomPending, AtIni, Names
<1>8. SweptInv'
  BY DEF Clean, SweptInv, SweptIntoFiles, InFile, Newest
<1> QED
  BY <1>1, <1>2, <1>3, <1>4, <1>5, <1>6, <1>7, <1>8 DEF Clean

LEMMA LegacyOpenClean ==
    ASSUME Typed, Clean, LegacyOpen, exposed' = {}
    PROVE  Clean'
<1> USE GamesAssumption, JunkAssumption
    DEF Typed, Jobs, Places, Banks, NoOrGame, LegacyOpen, StoreOpen, Truncated,
        HasSaveFile, Short, NoFile, Files, Contents, Blank
<1>1. NamesApart'
  BY DEF Clean, NamesApart, Apart
<1>2. FileInv'
  BY DEF Clean, FileInv
<1>3. BankInv'
  BY DEF Clean, BankInv, Names, AtIni, Filling, Newest0, Newest, Named
<1>4. KeptInv'
  BY DEF Clean, KeptInv, Names, AtIni, Filling, StoredUp, Newest0, Newest, Named, JobInv,
         MovePending, Moved, Without
<1>5. LegacyInv'
  BY DEF Clean, LegacyInv, Newest
<1>6. JobInv'
  BY DEF Clean, JobInv, AtIni, MovePending, Moved, Without, StoredUp, Newest0, Newest,
         Named
<1>7. RomInv'
  BY DEF Clean, RomInv, RomPending, AtIni, Names
<1>8. SweptInv'
  BY DEF Clean, SweptInv, SweptIntoFiles, InFile, Newest
<1> QED
  BY <1>1, <1>2, <1>3, <1>4, <1>5, <1>6, <1>7, <1>8 DEF Clean

LEMMA LegacyDataClean ==
    ASSUME Typed, Clean, NEW ok \in BOOLEAN, LegacyData(ok), exposed' = {}
    PROVE  Clean'
<1> USE GamesAssumption, JunkAssumption
    DEF Typed, Jobs, Places, Banks, NoOrGame, LegacyData, StoreData, Stored, HasSaveFile,
        Whole, NoFile, Files, Contents
<1>1. NamesApart'
  BY DEF Clean, NamesApart, Apart
<1>2. FileInv'
  BY DEF Clean, FileInv, NamesApart, Apart, BankInv, Names, AtIni, Filling, Newest0,
         Newest, Named, KeptInv, StoredUp, LegacyInv, JobInv, MovePending, Moved, Without,
         RomInv, RomPending, SweptInv, SweptIntoFiles, InFile
<1>3. BankInv'
  BY DEF Clean, BankInv, Names, AtIni, Filling, Newest0, Newest, Named, NamesApart, Apart,
         FileInv, KeptInv, StoredUp, LegacyInv, JobInv, MovePending, Moved, Without,
         RomInv, RomPending, SweptInv, SweptIntoFiles, InFile
<1>4. KeptInv'
  <2>1. ~sign /\ job.mem = ini /\ ini["psram"] \in Games
    BY DEF Clean, JobInv
  <2>2. StoredUp(ini["psram"])'
    <3>1. bank["old"] = Newest(ini["psram"]) /\ plays[ini["psram"]] > 0
      BY <2>1 DEF Clean, LegacyInv
    <3>2. ini["psram"] \in Named => file'[ini["psram"]].save = bank["old"]
      BY <2>1 DEF Named
    <3>3. plays[ini["psram"]] # 0
      BY <2>1, <3>1
    <3> QED
      BY <2>1, <3>1, <3>2, <3>3 DEF StoredUp, Newest0, Newest
  <2>3. ASSUME NEW g \in Named, g # ini["psram"] PROVE StoredUp(g)'
    BY <2>1, <2>3 DEF Clean, LegacyInv, StoredUp, Newest0, Named
  <2> QED
    BY <2>2, <2>3 DEF KeptInv
<1>5. LegacyInv'
  BY DEF Clean, LegacyInv, Newest
<1>6. JobInv'
  BY DEF Clean, JobInv, AtIni, MovePending, Moved, Without, StoredUp, Newest0, Newest,
         Named
<1>7. RomInv'
  BY DEF Clean, RomInv, RomPending, AtIni, Names, JobInv, MovePending, Moved, Without,
         StoredUp, Newest0, Newest, Named
<1>8. SweptInv'
  BY DEF Clean, SweptInv, SweptIntoFiles, InFile, Newest
<1> QED
  BY <1>1, <1>2, <1>3, <1>4, <1>5, <1>6, <1>7, <1>8 DEF Clean

LEMMA LegacyNoneClean ==
    ASSUME Typed, Clean, LegacyNone, exposed' = {}
    PROVE  Clean'
<1> USE GamesAssumption, JunkAssumption
    DEF Typed, Jobs, Places, Banks, NoOrGame, LegacyNone
<1>1. NamesApart'
  BY DEF Clean, NamesApart, Apart
<1>2. FileInv'
  BY DEF Clean, FileInv
<1>3. BankInv'
  BY DEF Clean, BankInv, Names, AtIni, Filling, Newest0, Newest, Named, NamesApart, Apart,
         FileInv, KeptInv, StoredUp, LegacyInv, JobInv, MovePending, Moved, Without,
         RomInv, RomPending, SweptInv, SweptIntoFiles, InFile
<1>4. KeptInv'
  BY DEF Clean, KeptInv, Names, AtIni, Filling, StoredUp, Newest0, Newest, Named,
         NamesApart, Apart, FileInv, BankInv, LegacyInv, JobInv, MovePending, Moved,
         Without, RomInv, RomPending, SweptInv, SweptIntoFiles, InFile
<1>5. LegacyInv'
  BY DEF Clean, LegacyInv, Newest
<1>6. JobInv'
  BY DEF Clean, JobInv, AtIni, MovePending, Moved, Without, StoredUp, Newest0, Newest,
         Named
<1>7. RomInv'
  BY DEF Clean, RomInv, RomPending, AtIni, Names
<1>8. SweptInv'
  BY DEF Clean, SweptInv, SweptIntoFiles, InFile, Newest
<1> QED
  BY <1>1, <1>2, <1>3, <1>4, <1>5, <1>6, <1>7, <1>8 DEF Clean

LEMMA SwitchToClean ==
    ASSUME Typed, Clean, SwitchTo, exposed' = {}
    PROVE  Clean'
<1> USE GamesAssumption, JunkAssumption
    DEF Typed, Jobs, Places, Banks, NoOrGame, SwitchTo, InNor, InPsram
<1>1. NamesApart'
  BY DEF Clean, NamesApart, Apart
<1>2. FileInv'
  BY DEF Clean, FileInv
<1>3. BankInv'
  BY DEF Clean, BankInv, Names, AtIni, Filling, Newest0, Newest, Named
<1>4. KeptInv'
  BY DEF Clean, KeptInv, Names, AtIni, Filling, StoredUp, Newest0, Newest, Named
<1>5. LegacyInv'
  BY DEF Clean, LegacyInv, Newest
<1>6. JobInv'
  BY DEF Clean, JobInv, AtIni, MovePending, Moved, Without, StoredUp, Newest0, Newest,
         Named
<1>7. RomInv'
  BY DEF Clean, RomInv, RomPending, AtIni, Names
<1>8. SweptInv'
  BY DEF Clean, SweptInv, SweptIntoFiles, InFile, Newest
<1> QED
  BY <1>1, <1>2, <1>3, <1>4, <1>5, <1>6, <1>7, <1>8 DEF Clean

LEMMA SwitchReloadClean ==
    ASSUME Typed, Clean, SwitchReload, exposed' = {}
    PROVE  Clean'
<1> USE GamesAssumption, JunkAssumption
    DEF Typed, Jobs, Places, Banks, NoOrGame, SwitchReload, InNor, InPsram
<1>1. NamesApart'
  BY DEF Clean, NamesApart, Apart
<1>2. FileInv'
  BY DEF Clean, FileInv
<1>3. BankInv'
  BY DEF Clean, BankInv, Names, AtIni, Filling, Newest0, Newest, Named
<1>4. KeptInv'
  BY DEF Clean, KeptInv, Names, AtIni, Filling, StoredUp, Newest0, Newest, Named
<1>5. LegacyInv'
  BY DEF Clean, LegacyInv, Newest
<1>6. JobInv'
  BY DEF Clean, JobInv, AtIni, MovePending, Moved, Without, StoredUp, Newest0, Newest,
         Named
<1>7. RomInv'
  BY DEF Clean, RomInv, RomPending, AtIni, Names
<1>8. SweptInv'
  BY DEF Clean, SweptInv, SweptIntoFiles, InFile, Newest
<1> QED
  BY <1>1, <1>2, <1>3, <1>4, <1>5, <1>6, <1>7, <1>8 DEF Clean

LEMMA SwitchStartClean ==
    ASSUME Typed, Clean, SwitchStart, exposed' = {}
    PROVE  Clean'
<1> USE GamesAssumption, JunkAssumption
    DEF Typed, Jobs, Places, Banks, NoOrGame, SwitchStart, InNor, InPsram
<1>1. NamesApart'
  BY DEF Clean, NamesApart, Apart
<1>2. FileInv'
  BY DEF Clean, FileInv
<1>3. BankInv'
  BY DEF Clean, BankInv, Names, AtIni, Filling, Newest0, Newest, Named
<1>4. KeptInv'
  BY DEF Clean, KeptInv, Names, AtIni, Filling, StoredUp, Newest0, Newest, Named
<1>5. LegacyInv'
  BY DEF Clean, LegacyInv, Newest
<1>6. JobInv'
  BY DEF Clean, JobInv, AtIni, MovePending, Moved, Without, StoredUp, Newest0, Newest,
         Named
<1>7. RomInv'
  BY DEF Clean, RomInv, RomPending, AtIni, Names, JobInv, MovePending, Moved, Without,
         StoredUp, Newest0, Newest, Named
<1>8. SweptInv'
  BY DEF Clean, SweptInv, SweptIntoFiles, InFile, Newest
<1> QED
  BY <1>1, <1>2, <1>3, <1>4, <1>5, <1>6, <1>7, <1>8 DEF Clean

LEMMA StoreClean ==
    ASSUME Typed, Clean, Store, exposed' = {}
    PROVE  Clean'
<1> USE GamesAssumption, JunkAssumption
    DEF Typed, Jobs, Places, Banks, NoOrGame, Store, StoreOpen, Truncated, HasSaveFile,
        Short, NoFile, Files, Contents, Blank
<1>1. NamesApart'
  BY DEF Clean, NamesApart, Apart
<1>2. FileInv'
  BY DEF Clean, FileInv
<1>3. BankInv'
  BY DEF Clean, BankInv, Names, AtIni, Filling, Newest0, Newest, Named
<1>4. KeptInv'
  BY DEF Clean, KeptInv, Names, AtIni, Filling, StoredUp, Newest0, Newest, Named, JobInv,
         MovePending, Moved, Without
<1>5. LegacyInv'
  BY DEF Clean, LegacyInv, Newest
<1>6. JobInv'
  BY DEF Clean, JobInv, AtIni, MovePending, Moved, Without, StoredUp, Newest0, Newest,
         Named
<1>7. RomInv'
  BY DEF Clean, RomInv, RomPending, AtIni, Names
<1>8. SweptInv'
  BY DEF Clean, SweptInv, SweptIntoFiles, InFile, Newest
<1> QED
  BY <1>1, <1>2, <1>3, <1>4, <1>5, <1>6, <1>7, <1>8 DEF Clean

LEMMA StoreRestClean ==
    ASSUME Typed, Clean, NEW ok \in BOOLEAN, StoreRest(ok), exposed' = {}
    PROVE  Clean'
<1> USE GamesAssumption, JunkAssumption
    DEF Typed, Jobs, Places, Banks, NoOrGame, StoreRest, StoreData, InPsram, Stored,
        HasSaveFile, Whole, NoFile, Files, Contents
<1>1. NamesApart'
  BY DEF Clean, NamesApart, Apart
<1>2. FileInv'
  BY DEF Clean, FileInv, BankInv, Names, AtIni, Filling, Newest0, Newest, Named, LegacyInv,
         JobInv, MovePending, Moved, Without, Blank
<1>3. BankInv'
  BY DEF Clean, BankInv, Names, AtIni, Filling, Newest0, Newest, Named
<1>4. KeptInv'
  BY DEF Clean, KeptInv, Names, AtIni, Filling, StoredUp, Newest0, Newest, Named, JobInv,
         MovePending, Moved, Without
<1>5. LegacyInv'
  BY DEF Clean, LegacyInv, Newest
<1>6. JobInv'
  <2>1. sign /\ job.game \in Games /\ job.mem["nor"] # job.game /\ job.then = "rom"
        /\ job.old # None /\ (MovePending \/ (Moved /\ job.old = ini["nor"] /\ StoredUp(job.game)))
    BY DEF Clean, JobInv, LegacyInv
  <2>2. \A p \in Places : ini[p] \in Named => bank[p] = Newest0(ini[p])
    BY <2>1 DEF Clean, BankInv, Names, AtIni, Filling
  <2>3. CASE InPsram
    <3>1. job.mem = ini /\ job.to = "nor" /\ job.old = job.game /\ ini["psram"] = job.game
      BY <2>1, <2>3 DEF MovePending, Moved, Without
    <3>2. StoredUp(job.game)'
      BY <2>2, <2>3, <3>1 DEF StoredUp, Newest0, Newest, Named
    <3> QED
      BY <2>1, <2>3, <3>1, <3>2 DEF JobInv, AtIni, Moved, Without
  <2>4. CASE ~InPsram
    <3>1. /\ job.old = ini[job.to] /\ job.old = job.mem[job.to] /\ job.old # job.game
          /\ (job.mem = ini /\ ini["psram"] # job.game) \/ Moved
      BY <2>1, <2>4 DEF MovePending, Moved, Without
    <3>2. StoredUp(job.old)'
      BY <2>2, <2>4, <3>1 DEF StoredUp, Newest0, Newest, Named
    <3>3. StoredUp(job.game)
      <4>1. CASE job.mem = ini
        BY <2>1, <3>1, <4>1 DEF Clean, KeptInv, Names, AtIni, Filling, StoredUp, MovePending, Moved
      <4> QED
        BY <2>1, <4>1 DEF MovePending
    <3>4. StoredUp(job.game)'
      BY <3>1, <3>3 DEF StoredUp, Newest0, Newest
    <3> QED
      BY <2>1, <2>4, <3>1, <3>2, <3>4 DEF JobInv, AtIni, Moved, Without
  <2> QED
    BY <2>3, <2>4
<1>7. RomInv'
  BY DEF Clean, RomInv, RomPending, AtIni, Names
<1>8. SweptInv'
  BY DEF Clean, SweptInv, SweptIntoFiles, InFile, Newest
<1> QED
  BY <1>1, <1>2, <1>3, <1>4, <1>5, <1>6, <1>7, <1>8 DEF Clean

LEMMA StoreNoneClean ==
    ASSUME Typed, Clean, StoreNone, exposed' = {}
    PROVE  Clean'
<1> USE GamesAssumption, JunkAssumption
    DEF Typed, Jobs, Places, Banks, NoOrGame, StoreNone
<1>1. NamesApart'
  BY DEF Clean, NamesApart, Apart
<1>2. FileInv'
  BY DEF Clean, FileInv
<1>3. BankInv'
  BY DEF Clean, BankInv, Names, AtIni, Filling, Newest0, Newest, Named
<1>4. KeptInv'
  BY DEF Clean, KeptInv, Names, AtIni, Filling, StoredUp, Newest0, Newest, Named
<1>5. LegacyInv'
  BY DEF Clean, LegacyInv, Newest
<1>6. JobInv'
  BY DEF Clean, JobInv, AtIni, MovePending, Moved, Without, StoredUp, Newest0, Newest,
         Named, NamesApart, Apart, FileInv, BankInv, Names, Filling, KeptInv, LegacyInv,
         RomInv, RomPending, SweptInv, SweptIntoFiles, InFile
<1>7. RomInv'
  BY DEF Clean, RomInv, RomPending, AtIni, Names
<1>8. SweptInv'
  BY DEF Clean, SweptInv, SweptIntoFiles, InFile, Newest
<1> QED
  BY <1>1, <1>2, <1>3, <1>4, <1>5, <1>6, <1>7, <1>8 DEF Clean

LEMMA FetchBlankClean ==
    ASSUME Typed, Clean, FetchBlank, exposed' = {}
    PROVE  Clean'
<1> USE GamesAssumption, JunkAssumption
    DEF Typed, Jobs, Places, Banks, NoOrGame, FetchBlank, HasSaveFile, Blank
<1>1. NamesApart'
  BY DEF Clean, NamesApart, Apart
<1>2. FileInv'
  BY DEF Clean, FileInv
<1>3. BankInv'
  BY DEF Clean, BankInv, Names, AtIni, Filling, Newest0, Newest, Named, JobInv,
         MovePending, Moved, Without, StoredUp
<1>4. KeptInv'
  BY DEF Clean, KeptInv, Names, AtIni, Filling, StoredUp, Newest0, Newest, Named, JobInv,
         MovePending, Moved, Without
<1>5. LegacyInv'
  BY DEF Clean, LegacyInv, Newest
<1>6. JobInv'
  BY DEF Clean, JobInv, AtIni, MovePending, Moved, Without, StoredUp, Newest0, Newest,
         Named
<1>7. RomInv'
  BY DEF Clean, RomInv, RomPending, AtIni, Names, JobInv, MovePending, Moved, Without,
         StoredUp, Newest0, Newest, Named
<1>8. SweptInv'
  BY DEF Clean, SweptInv, SweptIntoFiles, InFile, Newest
<1> QED
  BY <1>1, <1>2, <1>3, <1>4, <1>5, <1>6, <1>7, <1>8 DEF Clean

LEMMA FetchDataClean ==
    ASSUME Typed, Clean, FetchData, exposed' = {}
    PROVE  Clean'
<1> USE GamesAssumption, JunkAssumption
    DEF Typed, Jobs, Places, Banks, NoOrGame, FetchData, Fetched, HasSaveFile, Contents
<1>1. NamesApart'
  BY DEF Clean, NamesApart, Apart, JobInv, AtIni, MovePending, Moved, Without, StoredUp,
         Newest0, Newest, Named
<1>2. FileInv'
  BY DEF Clean, FileInv
<1>3. BankInv'
  BY DEF Clean, BankInv, Names, AtIni, Filling, Newest0, Newest, Named, JobInv,
         MovePending, Moved, Without, StoredUp
<1>4. KeptInv'
  BY DEF Clean, KeptInv, Names, AtIni, Filling, StoredUp, Newest0, Newest, Named
<1>5. LegacyInv'
  BY DEF Clean, LegacyInv, Newest
<1>6. JobInv'
  BY DEF Clean, JobInv, AtIni, MovePending, Moved, Without, StoredUp, Newest0, Newest,
         Named
<1>7. RomInv'
  BY DEF Clean, RomInv, RomPending, AtIni, Names, JobInv, MovePending, Moved, Without,
         StoredUp, Newest0, Newest, Named
<1>8. SweptInv'
  BY DEF Clean, SweptInv, SweptIntoFiles, InFile, Newest
<1> QED
  BY <1>1, <1>2, <1>3, <1>4, <1>5, <1>6, <1>7, <1>8 DEF Clean

LEMMA RomFailsClean ==
    ASSUME Typed, Clean, RomFails, exposed' = {}
    PROVE  Clean'
<1> USE GamesAssumption, JunkAssumption
    DEF Typed, Jobs, Places, Banks, NoOrGame, RomFails
<1>1. NamesApart'
  BY DEF Clean, NamesApart, Apart
<1>2. FileInv'
  BY DEF Clean, FileInv
<1>3. BankInv'
  BY DEF Clean, BankInv, Names, AtIni, Filling, Newest0, Newest, Named
<1>4. KeptInv'
  BY DEF Clean, KeptInv, Names, AtIni, Filling, StoredUp, Newest0, Newest, Named
<1>5. LegacyInv'
  BY DEF Clean, LegacyInv, Newest
<1>6. JobInv'
  BY DEF Clean, JobInv, AtIni, MovePending, Moved, Without, StoredUp, Newest0, Newest,
         Named
<1>7. RomInv'
  BY DEF Clean, RomInv, RomPending, AtIni, Names
<1>8. SweptInv'
  BY DEF Clean, SweptInv, SweptIntoFiles, InFile, Newest
<1> QED
  BY <1>1, <1>2, <1>3, <1>4, <1>5, <1>6, <1>7, <1>8 DEF Clean

LEMMA RomStartClean ==
    ASSUME Typed, Clean, RomStart, exposed' = {}
    PROVE  Clean'
<1> USE GamesAssumption, JunkAssumption
    DEF Typed, Jobs, Places, Banks, NoOrGame, RomStart
<1>1. NamesApart'
  BY DEF Clean, NamesApart, Apart
<1>2. FileInv'
  BY DEF Clean, FileInv
<1>3. BankInv'
  BY DEF Clean, BankInv, Names, AtIni, Filling, Newest0, Newest, Named
<1>4. KeptInv'
  BY DEF Clean, KeptInv, Names, AtIni, Filling, StoredUp, Newest0, Newest, Named
<1>5. LegacyInv'
  BY DEF Clean, LegacyInv, Newest
<1>6. JobInv'
  BY DEF Clean, JobInv, AtIni, MovePending, Moved, Without, StoredUp, Newest0, Newest,
         Named
<1>7. RomInv'
  BY DEF Clean, RomInv, RomPending, AtIni, Names
<1>8. SweptInv'
  BY DEF Clean, SweptInv, SweptIntoFiles, InFile, Newest
<1> QED
  BY <1>1, <1>2, <1>3, <1>4, <1>5, <1>6, <1>7, <1>8 DEF Clean

LEMMA RomDoneClean ==
    ASSUME Typed, Clean, RomDone, exposed' = {}
    PROVE  Clean'
<1> USE GamesAssumption, JunkAssumption
    DEF Typed, Jobs, Places, Banks, NoOrGame, RomDone, WithDefaultFile, HasSaveFile,
        NoFile, Short, Files, Contents
<1>1. NamesApart'
  BY DEF Clean, NamesApart, Apart
<1>2. FileInv'
  BY DEF Clean, FileInv
<1>3. BankInv'
  BY DEF Clean, BankInv, Names, AtIni, Filling, Newest0, Newest, Named
<1>4. KeptInv'
  BY DEF Clean, KeptInv, Names, AtIni, Filling, StoredUp, Newest0, Newest, Named
<1>5. LegacyInv'
  BY DEF Clean, LegacyInv, Newest
<1>6. JobInv'
  BY DEF Clean, JobInv, AtIni, MovePending, Moved, Without, StoredUp, Newest0, Newest,
         Named
<1>7. RomInv'
  BY DEF Clean, RomInv, RomPending, AtIni, Names, JobInv, MovePending, Moved, Without,
         StoredUp, Newest0, Newest, Named
<1>8. SweptInv'
  BY DEF Clean, SweptInv, SweptIntoFiles, InFile, Newest
<1> QED
  BY <1>1, <1>2, <1>3, <1>4, <1>5, <1>6, <1>7, <1>8 DEF Clean

LEMMA StartSlot2Clean ==
    ASSUME Typed, Clean, StartSlot2, exposed' = {}
    PROVE  Clean'
<1> USE GamesAssumption, JunkAssumption
    DEF Typed, Jobs, Places, Banks, NoOrGame, StartSlot2
<1>1. NamesApart'
  BY DEF Clean, NamesApart, Apart
<1>2. FileInv'
  BY DEF Clean, FileInv
<1>3. BankInv'
  BY DEF Clean, BankInv, Names, AtIni, Filling, Newest0, Newest, Named
<1>4. KeptInv'
  BY DEF Clean, KeptInv, Names, AtIni, Filling, StoredUp, Newest0, Newest, Named
<1>5. LegacyInv'
  BY DEF Clean, LegacyInv, Newest
<1>6. JobInv'
  BY DEF Clean, JobInv, AtIni, MovePending, Moved, Without, StoredUp, Newest0, Newest,
         Named
<1>7. RomInv'
  BY DEF Clean, RomInv, RomPending, AtIni, Names
<1>8. SweptInv'
  BY DEF Clean, SweptInv, SweptIntoFiles, InFile, Newest
<1> QED
  BY <1>1, <1>2, <1>3, <1>4, <1>5, <1>6, <1>7, <1>8 DEF Clean

LEMMA ExpOKClean ==
    ASSUME Typed, Clean, ExpOK, exposed' = {}
    PROVE  Clean'
<1> USE GamesAssumption, JunkAssumption
    DEF Typed, Jobs, Places, Banks, NoOrGame, ExpOK
<1>1. NamesApart'
  BY DEF Clean, NamesApart, Apart
<1>2. FileInv'
  BY DEF Clean, FileInv
<1>3. BankInv'
  BY DEF Clean, BankInv, Names, AtIni, Filling, Newest0, Newest, Named
<1>4. KeptInv'
  BY DEF Clean, KeptInv, Names, AtIni, Filling, StoredUp, Newest0, Newest, Named
<1>5. LegacyInv'
  BY DEF Clean, LegacyInv, Newest
<1>6. JobInv'
  BY DEF Clean, JobInv, AtIni, MovePending, Moved, Without, StoredUp, Newest0, Newest,
         Named
<1>7. RomInv'
  BY DEF Clean, RomInv, RomPending, AtIni, Names
<1>8. SweptInv'
  BY DEF Clean, SweptInv, SweptIntoFiles, InFile, Newest
<1> QED
  BY <1>1, <1>2, <1>3, <1>4, <1>5, <1>6, <1>7, <1>8 DEF Clean

LEMMA ExpRAMClean ==
    ASSUME Typed, Clean, ExpRAM, exposed' = {}
    PROVE  Clean'
<1> USE GamesAssumption, JunkAssumption
    DEF Typed, Jobs, Places, Banks, NoOrGame, ExpRAM
<1>1. NamesApart'
  BY DEF Clean, NamesApart, Apart
<1>2. FileInv'
  BY DEF Clean, FileInv
<1>3. BankInv'
  BY DEF Clean, BankInv, Names, AtIni, Filling, Newest0, Newest, Named
<1>4. KeptInv'
  BY DEF Clean, KeptInv, Names, AtIni, Filling, StoredUp, Newest0, Newest, Named
<1>5. LegacyInv'
  BY DEF Clean, LegacyInv, Newest
<1>6. JobInv'
  BY DEF Clean, JobInv, AtIni, MovePending, Moved, Without, StoredUp, Newest0, Newest,
         Named
<1>7. RomInv'
  BY DEF Clean, RomInv, RomPending, AtIni, Names
<1>8. SweptInv'
  BY DEF Clean, SweptInv, SweptIntoFiles, InFile, Newest
<1> QED
  BY <1>1, <1>2, <1>3, <1>4, <1>5, <1>6, <1>7, <1>8 DEF Clean

LEMMA PlayClean ==
    ASSUME Typed, Clean, Play, exposed' = {}
    PROVE  Clean'
<1> USE GamesAssumption, JunkAssumption
    DEF Typed, Jobs, Places, Banks, NoOrGame, Play, Contents
<1>1. NamesApart'
  BY DEF Clean, NamesApart, Apart
<1>2. FileInv'
  BY DEF Clean, FileInv
<1>3. BankInv'
  BY DEF Clean, BankInv, Names, AtIni, Filling, Newest0, Newest, Named, NamesApart, Apart,
         FileInv, KeptInv, StoredUp, LegacyInv, JobInv, MovePending, Moved, Without,
         RomInv, RomPending, SweptInv, SweptIntoFiles, InFile
<1>4. KeptInv'
  BY DEF Clean, KeptInv, Names, AtIni, Filling, StoredUp, Newest0, Newest, Named,
         NamesApart, Apart, FileInv, BankInv, LegacyInv, JobInv, MovePending, Moved,
         Without, RomInv, RomPending, SweptInv, SweptIntoFiles, InFile
<1>5. LegacyInv'
  BY DEF Clean, LegacyInv, Newest
<1>6. JobInv'
  BY DEF Clean, JobInv, AtIni, MovePending, Moved, Without, StoredUp, Newest0, Newest,
         Named
<1>7. RomInv'
  BY DEF Clean, RomInv, RomPending, AtIni, Names
<1>8. SweptInv'
  BY DEF Clean, SweptInv, SweptIntoFiles, InFile, Newest
<1> QED
  BY <1>1, <1>2, <1>3, <1>4, <1>5, <1>6, <1>7, <1>8 DEF Clean

LEMMA PowerOffClean ==
    ASSUME Typed, Clean, PowerOff, exposed' = {}
    PROVE  Clean'
<1> USE GamesAssumption, JunkAssumption
    DEF Typed, Jobs, Places, Banks, NoOrGame, PowerOff, Misnamed, TornRom, NoJob
<1>1. NamesApart'
  BY DEF Clean, NamesApart, Apart
<1>2. FileInv'
  BY DEF Clean, FileInv
<1>3. BankInv'
  BY DEF Clean, BankInv, Names, AtIni, Filling, Newest0, Newest, Named, JobInv,
         MovePending, Moved, Without, StoredUp
<1>4. KeptInv'
  <2>1. /\ pc # "fetchBlanked" /\ pc # "iniTorn"
        /\ pc = "ini" => job.then = "sweepNor" /\ job.mem = Without(ini)
    BY DEF Clean, JobInv, AtIni
  <2>2. Names' = ini /\ (\A p \in Places : ~Filling(p)') /\ sign' = sign
    BY DEF Names, AtIni, Filling
  <2>3. \A g : StoredUp(g)' <=> StoredUp(g)
    BY DEF StoredUp, Newest0, Newest
  <2>4. \A g \in Named, p \in Places : Names[p] = g => ini[p] = g
    <3>1. Names = ini \/ Names = Without(ini)
      BY <2>1 DEF Names, AtIni
    <3>2. \A g \in Named : g # None
      BY DEF Named
    <3>3. \A g \in Named, p \in Places : Without(ini)[p] = g => ini[p] = g
      BY <3>2 DEF Without
    <3> QED
      BY <3>1, <3>3
  <2>5. ASSUME sign, NEW g \in Named, ~StoredUp(g)
        PROVE  \E p \in Places : ini[p] = g
    <3>1. \E p \in Places : Names[p] = g
      BY <2>5 DEF Clean, KeptInv
    <3> QED
      BY <2>4, <3>1
  <2> QED
    BY <2>2, <2>3, <2>5 DEF KeptInv
<1>5. LegacyInv'
  BY DEF Clean, LegacyInv, Newest
<1>6. JobInv'
  BY DEF Clean, JobInv, AtIni, MovePending, Moved, Without, StoredUp, Newest0, Newest,
         Named
<1>7. RomInv'
  BY DEF Clean, RomInv, RomPending, AtIni, Names, JobInv, MovePending, Moved, Without,
         StoredUp, Newest0, Newest, Named
<1>8. SweptInv'
  BY DEF Clean, SweptInv, SweptIntoFiles, InFile, Newest
<1> QED
  BY <1>1, <1>2, <1>3, <1>4, <1>5, <1>6, <1>7, <1>8 DEF Clean

-----------------------------------------------------------------------------
(* The theorems *)

LEMMA StoredTyped ==
    ASSUME Typed, NEW g, NEW b \in Banks, NEW ok
    PROVE  Stored(g, b, ok) \in [Games -> Files]
<1>1. Whole(bank[b]) \in Files
  BY DEF Typed, Whole, Files
<1>2. file \in [Games -> Files]
  BY DEF Typed
<1> QED
  BY <1>1, <1>2 DEF Stored

LEMMA NewJob ==
    ASSUME NEW g \in NoOrGame, NEW to \in Places, NEW mem \in [Places -> NoOrGame],
           NEW force \in BOOLEAN, NEW start \in BOOLEAN
    PROVE  [NoJob EXCEPT !.game = g, !.force = force, !.start = start, !.to = to, !.mem = mem]
              \in Jobs
<1>1. None \in NoOrGame
  BY DEF NoOrGame
<1> QED
  BY <1>1, Zenon DEF Jobs, NoJob

LEMMA TypedStep == Typed /\ [Next]_vars => Typed'
<1> SUFFICES ASSUME Typed, [Next]_vars PROVE Typed'
  OBVIOUS
<1> USE GamesAssumption DEF Typed, Jobs, NoOrGame, Places, Banks
<1>1. CASE UNCHANGED vars
  BY <1>1 DEF vars
<1>2. ASSUME NEW autoSave \in BOOLEAN, Boot(autoSave) PROVE Typed'
  BY <1>2 DEF Boot, NoJob
<1>3. CASE SweepOpen \/ SweepNor \/ LegacyOpen \/ Store
  BY <1>3 DEF SweepOpen, SweepNor, LegacyOpen, Store, StoreOpen, Truncated, HasSaveFile, Short,
              Blank, Files, Contents
<1>4. CASE SweepNorSame
  BY <1>4 DEF SweepNorSame
<1>5. ASSUME NEW ok \in BOOLEAN, SweepData(ok) \/ SweepNorData(ok) \/ LegacyData(ok) PROVE Typed'
  <2>1. CASE SweepData(ok)
    BY <2>1 DEF SweepData, StoreData, Stored, HasSaveFile, Whole, Files
  <2>2. CASE SweepNorData(ok)
    BY <2>2 DEF SweepNorData, StoreData, Stored, HasSaveFile, Whole, Files
  <2>3. CASE LegacyData(ok)
    BY <2>3 DEF LegacyData, StoreData, Stored, HasSaveFile, Whole, Files
  <2> QED
    BY <1>5, <2>1, <2>2, <2>3
<1>6. ASSUME NEW ok \in BOOLEAN, StoreRest(ok) PROVE Typed'
  <2> HIDE DEF Jobs, Typed
  <2>1. job \in Jobs /\ job.to \in Places
    BY DEF Typed, Jobs
  <2>2. file' \in [Games -> Files]
    BY <1>6, <2>1, StoredTyped DEF StoreRest, StoreData
  <2>3. job' \in Jobs
    <3>1. [job EXCEPT !.mem["psram"] = None, !.old = job.mem["nor"]] \in Jobs
      BY <2>1 DEF Jobs
    <3> QED
      BY <1>6, <2>1, <3>1 DEF StoreRest
  <2>4. /\ pc' \in {"store", "fetch"} /\ ram' = "stray"
        /\ UNCHANGED <<bank, sign, ini, rom, mapped, plays, swept>>
    BY <1>6 DEF StoreRest, StoreData
  <2> QED
    BY <2>2, <2>3, <2>4 DEF Typed
<1>7. CASE IniOpen
  <2>1. ini' \in [Places -> NoOrGame]
    BY <1>7 DEF IniOpen
  <2>2. pc' = "iniTorn" /\ UNCHANGED <<job, bank, sign, file, rom, mapped, ram, plays, swept>>
    BY <1>7 DEF IniOpen
  <2> HIDE DEF Jobs
  <2> QED
    BY <2>1, <2>2
<1>8. CASE IniLines
  <2>1. job.mem \in [Places -> NoOrGame] /\ job.then \in {"menu", "sweepNor", "switch", "rom"}
    OBVIOUS
  <2>2. /\ ini' = job.mem /\ pc' = job.then
        /\ UNCHANGED <<job, bank, sign, file, rom, mapped, ram, plays, swept>>
    BY <1>8 DEF IniLines
  <2> HIDE DEF Jobs
  <2> QED
    BY <2>1, <2>2
<1>9. ASSUME NEW g \in Games, NEW force \in BOOLEAN, NEW start \in BOOLEAN, Load(g, force, start)
      PROVE  Typed'
  <2>1. [NoJob EXCEPT !.game = g, !.force = force, !.start = start,
                      !.to = IF g \in Big THEN "nor" ELSE "psram", !.mem = ini] \in Jobs
    <3>1. (IF g \in Big THEN "nor" ELSE "psram") \in Places /\ ini \in [Places -> NoOrGame]
      OBVIOUS
    <3> HIDE DEF Typed, Jobs, Places, NoOrGame
    <3> QED
      BY <3>1, NewJob DEF NoOrGame
  <2>2. /\ job' \in Jobs /\ mapped' = "nor" /\ ram' = "nor" /\ swept' = FALSE
        /\ pc' \in {"legacy", "switch"} /\ UNCHANGED <<bank, sign, file, ini, rom, plays>>
    BY <1>9, <2>1 DEF Load
  <2> HIDE DEF Jobs
  <2> QED
    BY <2>2
<1>10. CASE LegacyNone \/ SwitchReload \/ SwitchStart \/ StoreNone
  <2>1. CASE LegacyNone
    BY <2>1 DEF LegacyNone
  <2>2. CASE SwitchReload
    BY <2>2 DEF SwitchReload
  <2>3. CASE SwitchStart
    BY <2>3 DEF SwitchStart
  <2>4. CASE StoreNone
    BY <2>4 DEF StoreNone
  <2> QED
    BY <1>10, <2>1, <2>2, <2>3, <2>4
<1>11. CASE SwitchTo
  <2>1. job' \in Jobs
    BY <1>11 DEF SwitchTo
  <2>2. pc' = "store" /\ UNCHANGED <<bank, sign, file, ini, rom, mapped, ram, plays, swept>>
    BY <1>11 DEF SwitchTo
  <2> HIDE DEF Jobs
  <2> QED
    BY <2>1, <2>2
<1>12. CASE FetchBlank
  BY <1>12 DEF FetchBlank, Blank, Contents
<1>13. CASE FetchData
  BY <1>13 DEF FetchData, Fetched, HasSaveFile, Files
<1>14. CASE RomFails \/ RomStart
  BY <1>14 DEF RomFails, RomStart
<1>15. CASE RomDone
  BY <1>15 DEF RomDone, WithDefaultFile, HasSaveFile, Short, Blank, Files, Contents
<1>16. CASE StartSlot2 \/ ExpOK \/ ExpRAM
  BY <1>16 DEF StartSlot2, ExpOK, ExpRAM
<1>17. CASE Play
  BY <1>17 DEF Play, Contents
<1>18. CASE PowerOff
  BY <1>18 DEF PowerOff, NoJob
<1> QED
  BY <1>1, <1>2, <1>3, <1>4, <1>5, <1>6, <1>7, <1>8, <1>9, <1>10, <1>11, <1>12, <1>13, <1>14,
     <1>15, <1>16, <1>17, <1>18 DEF Next

LEMMA SaveInit == Init => SaveInv
<1> SUFFICES ASSUME Init PROVE SaveInv
  OBVIOUS
<1> USE GamesAssumption, JunkAssumption DEF Init, NoJob, NoFile, Blank
<1>1. Typed
  <2> USE DEF Typed, Jobs, NoOrGame, Places, Banks
  <2>1. file \in [Games -> Files]
    BY DEF Files, Contents
  <2>2. CASE \E g \in Games \ Big : ini = [p \in Places |-> IF p = "psram" THEN g ELSE None]
    <3>1. bank \in [Banks -> Contents] /\ plays \in [Games -> Nat]
      BY DEF Contents
    <3> QED
      BY <2>1, <2>2, <3>1
  <2>3. CASE ini = [p \in Places |-> None]
    <3>1. bank \in [Banks -> Contents] /\ plays \in [Games -> Nat]
      BY DEF Contents
    <3> QED
      BY <2>1, <2>3, <3>1
  <2> QED
    BY <2>2, <2>3
<1>2. NamesApart /\ FileInv /\ JobInv /\ SweptInv
  BY DEF NamesApart, Apart, FileInv, JobInv, AtIni, SweptInv, SweptIntoFiles, Places
<1>3. RomInv
  BY DEF RomInv, Names, AtIni, Places
<1>4. BankInv /\ KeptInv
  BY DEF BankInv, KeptInv, Names, AtIni, Filling, StoredUp, Newest0, Named, Places
<1>5. LegacyInv
  BY DEF LegacyInv, Newest, Places, Banks
<1> QED
  BY <1>1, <1>2, <1>3, <1>4, <1>5 DEF SaveInv, Clean

LEMMA SaveStep == SaveInv /\ [Next]_vars => SaveInv'
<1> SUFFICES ASSUME SaveInv, [Next]_vars PROVE SaveInv'
  OBVIOUS
<1>1. Typed /\ Typed'
  BY TypedStep DEF SaveInv
<1>2. ASSUME exposed' = {} PROVE Clean'
  <2>1. Clean
    <3>1. exposed = {}
      BY <1>2 DEF Next, vars, Boot, SweepOpen, SweepData, SweepNor, SweepNorData, SweepNorSame,
         IniOpen, IniLines, Load, LegacyOpen, LegacyData, LegacyNone, SwitchTo, SwitchReload,
         SwitchStart, Store, StoreRest, StoreNone, FetchBlank, FetchData, RomFails, RomStart,
         RomDone, StartSlot2, ExpOK, ExpRAM, Play, PowerOff, StoreOpen, StoreData
    <3> QED
      BY <3>1 DEF SaveInv
  <2>2. CASE UNCHANGED vars
    <3> USE <2>1, <2>2 DEF vars, Clean
    <3>1. NamesApart' /\ FileInv' /\ LegacyInv' /\ SweptInv'
      BY DEF NamesApart, Apart, FileInv, LegacyInv, Newest, SweptInv, SweptIntoFiles, InFile
    <3>2. BankInv' /\ KeptInv'
      BY DEF BankInv, KeptInv, Names, AtIni, Filling, StoredUp, Newest0, Newest
    <3>3. JobInv'
      BY DEF JobInv, AtIni, MovePending, Moved, Without, StoredUp, Newest0, Newest
    <3>4. RomInv'
      BY DEF RomInv, RomPending, AtIni, Names
    <3> QED
      BY <3>1, <3>2, <3>3, <3>4
  <2>3. CASE \E autoSave \in BOOLEAN : Boot(autoSave)
    BY <1>1, <1>2, <2>1, <2>3, BootClean
  <2>4. CASE SweepOpen \/ SweepNor \/ SweepNorSame \/ IniOpen \/ IniLines
    BY <1>1, <1>2, <2>1, <2>4, SweepOpenClean, SweepNorClean, SweepNorSameClean, IniOpenClean,
       IniLinesClean
  <2>5. CASE \E ok \in BOOLEAN :
               SweepData(ok) \/ SweepNorData(ok) \/ LegacyData(ok) \/ StoreRest(ok)
    BY <1>1, <1>2, <2>1, <2>5, SweepDataClean, SweepNorDataClean, LegacyDataClean, StoreRestClean
  <2>6. CASE \E g \in Games : \/ Load(g, FALSE, TRUE) \/ Load(g, TRUE, FALSE)
                              \/ g \notin Big /\ Load(g, FALSE, FALSE)
    BY <1>1, <1>2, <2>1, <2>6, LoadClean
  <2>7. CASE LegacyOpen \/ LegacyNone \/ SwitchTo \/ SwitchReload \/ SwitchStart
    BY <1>1, <1>2, <2>1, <2>7, LegacyOpenClean, LegacyNoneClean, SwitchToClean,
       SwitchReloadClean, SwitchStartClean
  <2>8. CASE Store \/ StoreNone \/ FetchBlank \/ FetchData
    BY <1>1, <1>2, <2>1, <2>8, StoreClean, StoreNoneClean, FetchBlankClean, FetchDataClean
  <2>9. CASE RomFails \/ RomStart \/ RomDone
    BY <1>1, <1>2, <2>1, <2>9, RomFailsClean, RomStartClean, RomDoneClean
  <2>10. CASE StartSlot2 \/ ExpOK \/ ExpRAM \/ Play \/ PowerOff
    BY <1>1, <1>2, <2>1, <2>10, StartSlot2Clean, ExpOKClean, ExpRAMClean, PlayClean, PowerOffClean
  <2> QED
    BY <2>2, <2>3, <2>4, <2>5, <2>6, <2>7, <2>8, <2>9, <2>10 DEF Next
<1> QED
  BY <1>1, <1>2 DEF SaveInv

\* The bounds of the histories, and what the banks and files may hold.
LEMMA ContentsStep == Typed /\ TypeOK /\ [Next]_vars => TypeOK'
<1> SUFFICES ASSUME Typed, TypeOK, [Next]_vars PROVE TypeOK'
  OBVIOUS
<1> USE GamesAssumption DEF TypeOK
<1> DEFINE FileOK == file' \in [Games -> {NoFile, Short} \cup {Whole(s) : s \in Saves}]
<1>1. /\ pc' \in {"off", "sweep", "sweepTorn", "sweepNor", "sweepNorTorn", "menu",
                 "legacy", "legacyTorn", "switch", "store", "storeTorn", "fetch",
                 "fetchBlanked", "ini", "iniTorn", "rom", "romTorn", "game"}
      /\ job'.game \in Games \cup {None} /\ job'.old \in Games \cup {None}
      /\ sign' \in BOOLEAN /\ ini' \in [Places -> Games \cup {None}]
      /\ rom' \in [Places -> Games \cup {None, Junk}] /\ mapped' \in Places \cup {"browser"}
      /\ ram' \in Places \cup {"stray"} /\ swept' \in BOOLEAN
  BY TypedStep DEF Typed, Jobs, NoOrGame
<1>2. plays' \in [Games -> 0..MaxPlays]
  <2>1. CASE Play
    <3>1. plays[rom[mapped]] + 1 \in 0..MaxPlays
      BY <2>1 DEF Play
    <3> QED
      BY <2>1, <3>1 DEF Play
  <2>2. CASE ~Play
    <3>1. plays' = plays
      BY <2>2 DEF Next, vars, Boot, SweepOpen, SweepData, SweepNor, SweepNorData, SweepNorSame,
         IniOpen, IniLines, Load, LegacyOpen, LegacyData, LegacyNone, SwitchTo, SwitchReload,
         SwitchStart, Store, StoreRest, StoreNone, FetchBlank, FetchData, RomFails, RomStart,
         RomDone, StartSlot2, ExpOK, ExpRAM, PowerOff, StoreOpen, StoreData
    <3> QED
      BY <3>1
  <2> QED
    BY <2>1, <2>2
<1>3. exposed' \subseteq {"cut", "refused", "rom", "legacy", "stray"}
  BY DEF Next, vars, Boot, SweepOpen, SweepData, SweepNor, SweepNorData, SweepNorSame,
     IniOpen, IniLines, Load, LegacyOpen, LegacyData, LegacyNone, SwitchTo, SwitchReload,
     SwitchStart, Store, StoreRest, StoreNone, FetchBlank, FetchData, RomFails, RomStart,
     RomDone, StartSlot2, ExpOK, ExpRAM, Play, PowerOff, StoreOpen, StoreData
<1>4. bank' \in [Banks -> Saves]
  <2>1. CASE FetchBlank
    BY <2>1 DEF FetchBlank, Saves
  <2>2. CASE FetchData
    <3>1. \A g \in Games : file[g].save \in Saves
      BY DEF NoFile, Short, Whole, Saves
    <3> QED
      BY <2>2, <3>1 DEF FetchData, Fetched, HasSaveFile
  <2>3. CASE Play
    <3>1. rom[mapped] \in Games /\ plays[rom[mapped]] + 1 \in 1..MaxPlays
      BY <2>3 DEF Play
    <3>2. [game |-> rom[mapped], play |-> plays[rom[mapped]] + 1] \in Saves
      BY <3>1 DEF Saves
    <3> QED
      BY <2>3, <3>2 DEF Play
  <2>4. CASE ~FetchBlank /\ ~FetchData /\ ~Play
    BY <2>4 DEF Next, vars, Boot, SweepOpen, SweepData, SweepNor, SweepNorData, SweepNorSame,
       IniOpen, IniLines, Load, LegacyOpen, LegacyData, LegacyNone, SwitchTo, SwitchReload,
       SwitchStart, Store, StoreRest, StoreNone, RomFails, RomStart,
       RomDone, StartSlot2, ExpOK, ExpRAM, PowerOff, StoreOpen, StoreData
  <2> QED
    BY <2>1, <2>2, <2>3, <2>4
<1>5. FileOK
  <2>1. ASSUME NEW g, file' = Truncated(g) PROVE FileOK
    BY <2>1 DEF Truncated
  <2>2. ASSUME NEW g, NEW b \in Banks, NEW ok, file' = Stored(g, b, ok) PROVE FileOK
    BY <2>2 DEF Stored
  <2>3. ASSUME NEW g, file' = WithDefaultFile(g) PROVE FileOK
    BY <2>3 DEF WithDefaultFile
  <2>4. \/ file' = file
        \/ \E g : file' = Truncated(g) \/ file' = WithDefaultFile(g)
        \/ \E g : \E b \in Banks : \E ok : file' = Stored(g, b, ok)
    <3>1. job.to \in Banks /\ "psram" \in Banks /\ "nor" \in Banks /\ "old" \in Banks
      BY DEF Typed, Jobs, Banks, Places
    <3> QED
      BY <3>1 DEF Next, vars, Boot, SweepOpen, SweepData, SweepNor, SweepNorData, SweepNorSame,
         IniOpen, IniLines, Load, LegacyOpen, LegacyData, LegacyNone, SwitchTo, SwitchReload,
         SwitchStart, Store, StoreRest, StoreNone, FetchBlank, FetchData, RomFails, RomStart,
         RomDone, StartSlot2, ExpOK, ExpRAM, Play, PowerOff, StoreOpen, StoreData
  <2> QED
    BY <2>1, <2>2, <2>3, <2>4
<1> HIDE DEF FileOK
<1> QED
  BY <1>1, <1>2, <1>3, <1>4, <1>5 DEF FileOK

\* The console, the job, the banks, the files and the histories keep their types.
THEOREM GbaTypeOK == Spec => []TypeOK
<1>1. Init => TypeOK
  <2> SUFFICES ASSUME Init PROVE TypeOK
    OBVIOUS
  <2>1. Typed
    BY SaveInit DEF SaveInv
  <2>2. Blank \in Saves /\ (MaxPlays > 0 => \A g \in Games : [game |-> g, play |-> 1] \in Saves)
    BY GamesAssumption DEF Saves
  <2>3. bank \in [Banks -> Saves]
    BY <2>2 DEF Init
  <2>4. plays \in [Games -> 0..MaxPlays]
    BY GamesAssumption DEF Init
  <2> QED
    BY <2>1, <2>3, <2>4 DEF TypeOK, Typed, Init, Jobs, NoOrGame
<1>2. SaveInv /\ TypeOK /\ [Next]_vars => TypeOK'
  BY ContentsStep DEF SaveInv
<1> QED
  BY <1>1, <1>2, SaveInit, SaveStep, PTL DEF Spec

\* In every state outside the weak spots, whatever was loaded, moved, cut off or
\* swept before, the newest save of a game is where the menu will look for it.
THEOREM GbaNewestKept == Spec => []NewestKept
<1>1. SaveInv => NewestKept
  <2> SUFFICES ASSUME SaveInv, exposed = {}, NEW g \in Games \ LongNamed, plays[g] > 0
               PROVE  \/ InBank(g) \/ InFile(g)
                      \/ ~sign /\ ini["psram"] = g /\ bank["old"] = Newest(g)
                      \/ pc \in {"ini", "iniTorn"} /\
                         \E p \in Places : job.mem[p] = g /\ bank[p] = Newest(g)
    BY DEF NewestKept
  <2>1. Clean /\ plays[g] \in Nat
    BY DEF SaveInv, Typed
  <2>2. Newest0(g) = Newest(g)
    BY <2>1 DEF Newest0
  <2>3. CASE ~sign
    BY <2>1, <2>3 DEF Clean, LegacyInv
  <2>4. CASE sign /\ ~StoredUp(g)
    <3>1. PICK p \in Places : Names[p] = g /\ ~Filling(p)
      BY <2>1, <2>4 DEF Clean, KeptInv, Named
    <3>2. bank[p] = Newest(g)
      BY <2>1, <2>2, <2>4, <3>1 DEF Clean, BankInv, Named
    <3>3. CASE pc = "fetchBlanked"
      <4>1. ini[p] = g
        BY <2>1, <3>1, <3>3, GamesAssumption DEF Clean, JobInv, Names, Moved, Without, SaveInv,
           Typed, Places
      <4> QED
        BY <3>2, <4>1 DEF InBank
    <3>4. CASE AtIni
      BY <3>1, <3>2, <3>4 DEF Names, AtIni
    <3>5. CASE pc # "fetchBlanked" /\ ~AtIni
      BY <3>1, <3>2, <3>5 DEF Names, InBank
    <3> QED
      BY <3>3, <3>4, <3>5
  <2>5. CASE StoredUp(g)
    BY <2>2, <2>5 DEF StoredUp, InFile, Named
  <2> QED
    BY <2>3, <2>4, <2>5
<1> QED
  BY <1>1, SaveInit, SaveStep, PTL DEF Spec

\* No order of loads, sweeps and cuts stores one game's save into another's file.
THEOREM GbaFilesPure == Spec => []FilesPure
<1>1. SaveInv => FilesPure
  BY DEF SaveInv, Clean, FileInv, FilesPure
<1> QED
  BY <1>1, SaveInit, SaveStep, PTL DEF Spec

\* However a game is started, through Load or from the slot's row, the bank it
\* is shown has its own newest save, or nothing if it never saved.
THEOREM GbaStartsOnOwnSave == Spec => []StartsOnOwnSave
<1>1. SaveInv => StartsOnOwnSave
  <2> SUFFICES ASSUME SaveInv, pc = "game", exposed = {}, rom[mapped] \in Games \ LongNamed
               PROVE  bank[ram] = Newest0(rom[mapped])
    BY DEF StartsOnOwnSave, Newest0
  <2>1. Clean
    BY DEF SaveInv
  <2>2. sign
    BY <2>1 DEF Clean, LegacyInv
  <2>3. mapped \in Places /\ ram = mapped /\ rom[mapped] = ini[mapped]
    BY <2>1 DEF Clean, RomInv, RomPending, AtIni, Names, Places
  <2> QED
    BY <2>1, <2>2, <2>3 DEF Clean, BankInv, Names, AtIni, Filling, Named
<1> QED
  BY <1>1, SaveInit, SaveStep, PTL DEF Spec

\* A start of the menu that stores the saves leaves none that only the bank of
\* PSRAM has.
THEOREM GbaSweptIntoFiles == Spec => []SweptIntoFiles
<1>1. SaveInv => SweptIntoFiles
  BY DEF SaveInv, Clean, SweptInv, SweptIntoFiles
<1> QED
  BY <1>1, SaveInit, SaveStep, PTL DEF Spec

-----------------------------------------------------------------------------
(* CGbaWriterNor (GbaNorWriter), for flash that is erased a page at a time,*)
(* loses no patch that fits its buffer, for any page and guard size, any   *)
(* flash and any order of patches: what is not in the flash is in the      *)
(* buffer (Overlay).  The step that matters is the turn from one page to   *)
(* another (LEMMA Turned).                                                 *)

\* Committing a page puts the buffer into the page and touches nothing else:
\* programming follows the erasure.
LEMMA CommitCell ==
    ASSUME NEW f, NEW b, NEW p, NEW x \in Cells
    PROVE  Commit(f, b, p)[x] = IF InPage(p, x) THEN b[x] ELSE f[x]
  BY DEF Commit, Program, Erase

\* The same for the guard on top of a flash.
LEMMA GuardCell ==
    ASSUME NEW f, NEW b, NEW p, NEW x \in Cells
    PROVE  WithGuard(f, b, p)[x] = IF InGuard(p, x) THEN b[x] ELSE f[x]
  BY DEF WithGuard

\* The pages are numbers, and a page starts at or before each of its addresses.
LEMMA PageNat ==
    ASSUME NEW a \in Nat
    PROVE  PageOf(a) \in Nat /\ PageOf(a) <= a
  <1>1. EPageSize \in Nat /\ EPageSize > 0  BY WriterAssumption
  <1>2. a % EPageSize \in 0..(EPageSize - 1)  BY <1>1
  <1>3. a \div EPageSize \in Nat /\ a = EPageSize * (a \div EPageSize) + (a % EPageSize)  BY <1>1
  <1>4. EPageSize * (a \div EPageSize) \in Nat  BY <1>1, <1>3
  <1> QED  BY <1>1, <1>2, <1>3, <1>4 DEF PageOf

\* What holds between the buffer, the flash and the writes made so far after
\* the writer has turned to page p.
LEMMA Turned ==
    ASSUME Overlay, iCurPage \in Nat \cup {NoPage}, NEW p \in Nat, NEW x \in Cells
    PROVE  image[x] = IF InBuffer(p, x) THEN TurnTo(p).buffer[x] ELSE TurnTo(p).flash[x]
  <1> DEFINE f == Commit(flash, iBuffer, iCurPage)
             g == Commit(f, WithGuard(f, iBuffer, iCurPage), iCurPage + EPageSize)
  <1>a. /\ x \in Nat /\ EPageSize \in Nat /\ EPageSize > 0
        /\ EGuardSize \in Nat /\ EGuardSize <= EPageSize
    BY WriterAssumption
  <1>b. image[x] = IF iCurPage # NoPage /\ InBuffer(iCurPage, x) THEN iBuffer[x] ELSE flash[x]
    BY DEF Overlay
  <1>1. CASE iCurPage = NoPage
    <2>1. TurnTo(p) = [flash |-> flash, buffer |-> flash]  BY <1>1 DEF TurnTo, NoPage
    <2> QED  BY <1>1, <1>b, <2>1
  <1>2. CASE iCurPage # NoPage /\ iCurPage = p
    <2>1. TurnTo(p) = [flash |-> flash, buffer |-> iBuffer]  BY <1>2 DEF TurnTo
    <2> QED  BY <1>2, <1>b, <2>1
  <1>3. CASE iCurPage # NoPage /\ iCurPage # p
    <2>1. iCurPage \in Nat  BY <1>3
    <2>2. f[x] = IF InPage(iCurPage, x) THEN iBuffer[x] ELSE flash[x]
      BY CommitCell
    <2>3. ~InGuard(iCurPage, x) => f[x] = image[x]
      BY <1>3, <1>b, <2>2 DEF InBuffer
    <2>4. InGuard(iCurPage, x) => ~InPage(iCurPage, x)
      BY <1>a, <2>1 DEF InGuard, InPage
    <2>5. InGuard(iCurPage, x) => iBuffer[x] = image[x]
      BY <1>3, <1>b DEF InBuffer
    <2>6. InGuard(iCurPage, x) => InPage(iCurPage + EPageSize, x)
      BY <1>a, <2>1 DEF InGuard, InPage
    <2>7. CASE ~GuardDiffers(f, iBuffer, iCurPage)
      <3>1. InGuard(iCurPage, x) => iBuffer[x] = f[x]  BY <2>7 DEF GuardDiffers
      <3>2. TurnTo(p).flash = f /\ TurnTo(p).buffer = f
        BY <1>3, <2>7 DEF TurnTo
      <3> QED  BY <2>3, <2>5, <3>1, <3>2
    <2>8. CASE GuardDiffers(f, iBuffer, iCurPage) /\ p = iCurPage + EPageSize
      <3>1. TurnTo(p).flash = f /\ TurnTo(p).buffer = WithGuard(f, iBuffer, iCurPage)
        BY <1>3, <2>8 DEF TurnTo
      <3>2. WithGuard(f, iBuffer, iCurPage)[x] = image[x]
        BY <2>3, <2>5, GuardCell
      <3>3. InGuard(iCurPage, x) => InBuffer(p, x)  BY <2>6, <2>8 DEF InBuffer
      <3> QED  BY <2>3, <3>1, <3>2, <3>3
    <2>9. CASE GuardDiffers(f, iBuffer, iCurPage) /\ p # iCurPage + EPageSize
      <3>1. TurnTo(p).flash = g /\ TurnTo(p).buffer = g
        BY <1>3, <2>9 DEF TurnTo
      <3>2. WithGuard(f, iBuffer, iCurPage)[x] = image[x]
        BY <2>3, <2>5, GuardCell
      <3>3. g[x] = IF InPage(iCurPage + EPageSize, x)
                   THEN WithGuard(f, iBuffer, iCurPage)[x] ELSE f[x]
        BY CommitCell
      <3>4. g[x] = image[x]  BY <2>3, <2>6, <3>2, <3>3
      <3> QED  BY <3>1, <3>4
    <2> QED  BY <2>7, <2>8, <2>9
  <1> QED  BY <1>1, <1>2, <1>3

WriterInv == Overlay /\ iCurPage \in Nat \cup {NoPage}

LEMMA WriteKeeps ==
    ASSUME WriterInv, NEW a \in Nat, NEW n \in Nat, NEW v, Fits(a, n), Write(a, n, v)
    PROVE  WriterInv'
  <1> DEFINE p == PageOf(a)
             turned == TurnTo(p)
  <1>1. p \in Nat /\ p <= a  BY PageNat
  <1>2. /\ flash' = turned.flash
        /\ iBuffer' = Patched(turned.buffer, a, n, v)
        /\ iCurPage' = p
        /\ image' = Patched(image, a, n, v)
    BY DEF Write
  <1>3. p # NoPage  BY <1>1 DEF NoPage
  <1>4. Overlay'
    <2> SUFFICES ASSUME NEW x \in Cells
                 PROVE  image'[x] = IF InBuffer(p, x) THEN iBuffer'[x] ELSE flash'[x]
      BY <1>2, <1>3 DEF Overlay
    <2>1. /\ x \in Nat /\ EPageSize \in Nat /\ EPageSize > 0 /\ EGuardSize \in Nat
      BY WriterAssumption
    <2>2. image[x] = IF InBuffer(p, x) THEN turned.buffer[x] ELSE turned.flash[x]
      BY <1>1, Turned DEF WriterInv
    <2>3. /\ image'[x] = IF a <= x /\ x < a + n THEN v ELSE image[x]
          /\ iBuffer'[x] = IF a <= x /\ x < a + n THEN v ELSE turned.buffer[x]
      BY <1>2 DEF Patched
    <2>4. a <= x /\ x < a + n => InBuffer(p, x)
      BY <1>1, <2>1 DEF Fits, InBuffer, InPage, InGuard
    <2> QED  BY <1>2, <2>2, <2>3, <2>4
  <1> QED  BY <1>1, <1>2, <1>4 DEF WriterInv

LEMMA CloseKeeps ==
    ASSUME WriterInv, Close
    PROVE  WriterInv' /\ WrittenThrough'
  <1>1. /\ iBuffer' = iBuffer /\ iCurPage' = iCurPage /\ image' = image
        /\ flash' = IF iCurPage = NoPage THEN flash ELSE Commit(flash, iBuffer, iCurPage)
    BY DEF Close
  <1>2. ASSUME NEW x \in Cells
        PROVE  flash'[x] = IF iCurPage # NoPage /\ InPage(iCurPage, x) THEN iBuffer[x] ELSE flash[x]
    BY <1>1, CommitCell
  <1>3. ASSUME NEW x \in Cells
        PROVE  image[x] = IF iCurPage # NoPage /\ InBuffer(iCurPage, x) THEN iBuffer[x] ELSE flash[x]
    BY DEF WriterInv, Overlay
  <1>4. Overlay'  BY <1>1, <1>2, <1>3 DEF Overlay, InBuffer
  <1>5. WrittenThrough'  BY <1>1, <1>2, <1>3 DEF WrittenThrough, InBuffer
  <1> QED  BY <1>1, <1>4, <1>5 DEF WriterInv

LEMMA WriterStep == WriterInv /\ [WriterNext]_writerVars => WriterInv'
  <1> SUFFICES ASSUME WriterInv, [WriterNext]_writerVars  PROVE WriterInv'
    OBVIOUS
  <1>1. ASSUME NEW a \in Nat, NEW n \in Nat, NEW v \in Values, Fits(a, n) /\ Write(a, n, v)
        PROVE  WriterInv'
    BY <1>1, WriteKeeps
  <1>2. CASE Close  BY <1>2, CloseKeeps
  <1>3. CASE UNCHANGED writerVars
    BY <1>3 DEF writerVars, WriterInv, Overlay
  <1> QED  BY <1>1, <1>2, <1>3 DEF WriterNext

LEMMA WriterStart == WriterInit => WriterInv
  BY DEF WriterInit, WriterInv, Overlay

\* Whatever patches are written, of those that end within the guard, in
\* whatever order of pages: a byte of the flash that is not up to date is in
\* the buffer (CGbaWriterNor::Write).
THEOREM WriterHidesNothing == WriterSpec => []Overlay
  <1>1. WriterInv => Overlay  BY DEF WriterInv
  <1> QED  BY <1>1, WriterStart, WriterStep, PTL DEF WriterSpec

\* Closing the writer leaves nothing behind but the guard of the last page
\* (CGbaWriterNor::Close).
THEOREM CloseWritesThrough == WriterSpec => [][Close => WrittenThrough']_writerVars
  <1>1. WriterInv => [Close => WrittenThrough']_writerVars
    BY CloseKeeps
  <1> QED  BY <1>1, WriterStart, WriterStep, PTL DEF WriterSpec

-----------------------------------------------------------------------------
(* The patcher (GbaPatch), for any ROMs, cells, registers and literals.  A  *)
(* write that the tables list ends within the guard, wherever it begins.   *)

\* Writes: of at most the size of the guard, of any size, and what they put.
SmallWrites == [at : Nat, len : 0..256]
Writes      == [at : Nat, len : Nat]
Kinds       == {"patch", "bx", "jump", "sleep", "activation"}
Puts        == [at : Nat, len : Nat, v : [kind : Kinds, n : Nat]]

AllFit(ws) ==
    /\ ws \in Seq(Writes)
    /\ \A k \in DOMAIN ws : Fits(ws[k].at, ws[k].len)

LEMMA SeqWider ==
    ASSUME NEW S, NEW T, \A x \in S : x \in T, NEW s \in Seq(S)
    PROVE  s \in Seq(T)
  <1>1. \A k \in 1..Len(s) : s[k] \in T  OBVIOUS
  <1>2. s = [k \in 1..Len(s) |-> s[k]]  OBVIOUS
  <1> QED  BY <1>1, <1>2

LEMMA SmallWrite == \A a \in Nat, n \in 0..256 : W(a, n) \in SmallWrites
  BY DEF W, SmallWrites

LEMMA SmallIsWrite == \A w \in SmallWrites : w \in Writes
  <1> SUFFICES ASSUME NEW w \in SmallWrites  PROVE w \in Writes
    OBVIOUS
  <1>1. w.at \in Nat /\ w.len \in 0..256 /\ w = [at |-> w.at, len |-> w.len]
    BY DEF SmallWrites
  <1>2. \A a \in Nat, n \in 0..256 : [at |-> a, len |-> n] \in Writes  BY DEF Writes
  <1> QED  BY <1>1, <1>2

LEMMA SmallFits ==
    ASSUME NEW a \in Nat, NEW n \in 0..256
    PROVE  Fits(a, n)
  <1>1. EPageSize \in Nat /\ EPageSize > 0 /\ EGuardSize = 256  BY PageAssumption
  <1>2. a % EPageSize \in 0..(EPageSize - 1)  BY <1>1
  <1> QED  BY <1>1, <1>2 DEF Fits, PageOf

LEMMA SmallAllFit ==
    ASSUME NEW ws \in Seq(SmallWrites)
    PROVE  AllFit(ws)
  <1>1. ws \in Seq(Writes)
    BY SmallIsWrite, SeqWider
  <1>2. ASSUME NEW k \in DOMAIN ws  PROVE Fits(ws[k].at, ws[k].len)
    <2>1. ws[k] \in SmallWrites  OBVIOUS
    <2> QED  BY <2>1, SmallFits DEF SmallWrites
  <1> QED  BY <1>1, <1>2 DEF AllFit

LEMMA PutIs ==
    ASSUME NEW a \in Nat, NEW n \in Nat, NEW kind \in Kinds, NEW m \in Nat
    PROVE  /\ Put(a, n, Val(kind, m)) \in Puts
           /\ Put(a, n, Val(kind, m)).at = a /\ Put(a, n, Val(kind, m)).len = n
           /\ Put(a, n, Val(kind, m)).v = Val(kind, m)
           /\ Val(kind, m).kind = kind /\ Val(kind, m).n = m
  <1>1. Val(kind, m) \in [kind : Kinds, n : Nat]  BY DEF Val
  <1> QED  BY <1>1 DEF Put, Puts, Val

LEMMA PatchesFit ==
    ASSUME NEW ws, AllFit(ws)
    PROVE  /\ Patches(ws) \in Seq(Puts)
           /\ \A k \in DOMAIN Patches(ws) :
                 /\ Patches(ws)[k].v.kind = "patch"
                 /\ Fits(Patches(ws)[k].at, Patches(ws)[k].len)
  <1>1. ws \in Seq(Writes)  BY DEF AllFit
  <1>2. DOMAIN Patches(ws) = 1..Len(ws) /\ Len(ws) \in Nat  BY <1>1 DEF Patches
  <1>3. ASSUME NEW k \in 1..Len(ws)
        PROVE  /\ Patches(ws)[k] \in Puts /\ Patches(ws)[k].v.kind = "patch"
               /\ Fits(Patches(ws)[k].at, Patches(ws)[k].len)
    <2> DEFINE a == ws[k].at
               n == ws[k].len
    <2>1. ws[k] \in Writes  BY <1>1
    <2>2. a \in Nat /\ n \in Nat  BY <2>1 DEF Writes
    <2>3. Fits(a, n)  BY <1>1 DEF AllFit
    <2>4. Patches(ws)[k] = Put(a, n, Val("patch", a))  BY <1>1 DEF Patches
    <2>5. "patch" \in Kinds  BY DEF Kinds
    <2> HIDE DEF a, n
    <2> DEFINE put == Put(a, n, Val("patch", a))
    <2>6. /\ put \in Puts /\ put.at = a /\ put.len = n /\ put.v = Val("patch", a)
          /\ Val("patch", a).kind = "patch"
      BY <2>2, <2>5, PutIs
    <2>7. Patches(ws)[k] = put  BY <2>4
    <2> HIDE DEF put
    <2>8. put.v.kind = "patch" /\ Fits(put.at, put.len)  BY <2>3, <2>6
    <2> QED  BY <2>6, <2>7, <2>8
  <1>4. Patches(ws) = [k \in 1..Len(ws) |-> Patches(ws)[k]]  BY <1>2 DEF Patches
  <1>5. Patches(ws) \in Seq(Puts)  BY <1>2, <1>3, <1>4
  <1> QED  BY <1>2, <1>3, <1>5

LEMMA ShiftFits ==
    ASSUME NEW a \in Nat, NEW ws \in Seq(SmallWrites)
    PROVE  Shift(a, ws) \in Seq(SmallWrites)
  <1>1. ASSUME NEW k \in DOMAIN ws  PROVE W(a + ws[k].at, ws[k].len) \in SmallWrites
    <2>1. ws[k] \in SmallWrites  OBVIOUS
    <2>2. a + ws[k].at \in Nat /\ ws[k].len \in 0..256  BY <2>1 DEF SmallWrites
    <2> QED  BY <2>2, SmallWrite
  <1> QED  BY <1>1 DEF Shift

\* What the tables write at a mark is small: EEPROM,
LEMMA EepromTableSmall ==
    \A type \in DOMAIN EepromTable : \A e \in EepromTable[type] : e.writes \in Seq(SmallWrites)
  <1> SUFFICES ASSUME NEW type \in DOMAIN EepromTable, NEW e \in EepromTable[type]
               PROVE  e.writes \in Seq(SmallWrites)
    OBVIOUS
  <1>1. CASE type \in {"EEEPROMRead", "EEEPROMWrite", "EEEPROMWrite124", "EEEPROMWrite126"}
    <2>1. e.writes = <<W(0, 34)>>
      BY <1>1 DEF EepromTable, EepromCode, At
    <2> QED  BY <2>1, SmallWrite
  <1> QED  BY <1>1 DEF EepromTable

\* FLASH1M,
LEMMA Flash1MTableSmall ==
    \A type \in DOMAIN Flash1MTable : \A e \in Flash1MTable[type] : e.writes \in Seq(SmallWrites)
  <1> SUFFICES ASSUME NEW type \in DOMAIN Flash1MTable, NEW e \in Flash1MTable[type]
               PROVE  e.writes \in Seq(SmallWrites)
    OBVIOUS
  <1>1. CASE type = "EFLASH1M102_1"
    <2>1. e.writes = <<W(0, 10)>>
      BY <1>1 DEF Flash1MTable, Flash1MCode, At
    <2> QED  BY <2>1, SmallWrite
  <1>2. CASE type = "EFLASH1M102_2"
    <2>1. e.writes = <<W(0, 8)>>
      BY <1>2 DEF Flash1MTable, Flash1MCode, At
    <2> QED  BY <2>1, SmallWrite
  <1>3. CASE type \in {"EFLASH1M102_3", "EFLASH1M103_3"}
    <2>1. e.writes = <<W(0, 76), W(38, 2)>>
      BY <1>3 DEF Flash1MTable, Flash1MCode, At
    <2> QED  BY <2>1, SmallWrite
  <1>4. CASE type = "EFLASH1M102_4"
    <2>1. e.writes = <<W(6, 2), W(12, 2), W(16, 2)>> \/ e.writes = <<>>
      BY <1>4 DEF Flash1MTable, Flash1MCode, At
    <2>2. <<>> \in Seq(SmallWrites)  OBVIOUS
    <2>3. <<W(6, 2), W(12, 2), W(16, 2)>> \in Seq(SmallWrites)  BY SmallWrite
    <2> QED  BY <2>1, <2>2, <2>3
  <1>5. CASE type = "EFLASH1M102_5"
    <2>1. e.writes = <<W(0, 104), W(50, 2)>>
      BY <1>5 DEF Flash1MTable, Flash1MCode, At
    <2> QED  BY <2>1, SmallWrite
  <1>6. CASE type = "EFLASH1M103_1"
    <2>1. e.writes = <<>> \/ e.writes = <<W(2, 2), W(8, 2), W(12, 2)>>
      BY <1>6 DEF Flash1MTable, Flash1MCode, At
    <2>2. <<>> \in Seq(SmallWrites)  OBVIOUS
    <2>3. <<W(2, 2), W(8, 2), W(12, 2)>> \in Seq(SmallWrites)  BY SmallWrite
    <2> QED  BY <2>1, <2>2, <2>3
  <1>7. CASE type = "EFLASH1M103_2"
    <2>1. e.writes = <<W(2, 28)>>
      BY <1>7 DEF Flash1MTable, Flash1MCode, At
    <2> QED  BY <2>1, SmallWrite
  <1>8. CASE type = "EFLASHV123_3"
    <2>1. e.writes = <<>> \/ e.writes = <<W(0, 8)>>
      BY <1>8 DEF Flash1MTable, Flash1MCode, At
    <2>2. <<>> \in Seq(SmallWrites)  OBVIOUS
    <2>3. <<W(0, 8)>> \in Seq(SmallWrites)  BY SmallWrite
    <2> QED  BY <2>1, <2>2, <2>3
  <1>9. CASE type = "EFLASH1M103_4"
    <2>1. e.writes = <<W(0, 88), W(46, 2)>>
      BY <1>9 DEF Flash1MTable, Flash1MCode, At
    <2> QED  BY <2>1, SmallWrite
  <1> QED  BY <1>1, <1>2, <1>3, <1>4, <1>5, <1>6, <1>7, <1>8, <1>9 DEF Flash1MTable

\* and FLASH.
LEMMA FlashTableSmall ==
    \A type \in DOMAIN FlashTable : \A e \in FlashTable[type] : e.writes \in Seq(SmallWrites)
  <1> SUFFICES ASSUME NEW type \in DOMAIN FlashTable, NEW e \in FlashTable[type]
               PROVE  e.writes \in Seq(SmallWrites)
    OBVIOUS
  <1>1. CASE type \in {"EFLASH1M102_2", "EFLASH_2", "EFLASH_3", "EFLASHV123_1", "EFLASHV123_3", "EFLASHV123_4"}
    <2>1. e.writes = <<W(0, 8)>>
      BY <1>1 DEF FlashTable, FlashCode, At
    <2> QED  BY <2>1, SmallWrite
  <1>2. CASE type = "EFLASH_1"
    <2>1. e.writes = <<W(0, 14)>>
      BY <1>2 DEF FlashTable, FlashCode, At
    <2> QED  BY <2>1, SmallWrite
  <1>3. CASE type = "EFLASH_4"
    <2>1. e.writes = <<W(0, 40)>>
      BY <1>3 DEF FlashTable, FlashCode, At
    <2> QED  BY <2>1, SmallWrite
  <1>4. CASE type \in {"EFLASHV123_2", "EFLASH512_1"}
    <2>1. e.writes = <<W(0, 38)>>
      BY <1>4 DEF FlashTable, FlashCode, At
    <2> QED  BY <2>1, SmallWrite
  <1>5. CASE type \in {"EFLASHV123_5", "EFLASH512_2"}
    <2>1. e.writes = <<W(0, 42)>>
      BY <1>5 DEF FlashTable, FlashCode, At
    <2> QED  BY <2>1, SmallWrite
  <1> QED  BY <1>1, <1>2, <1>3, <1>4, <1>5 DEF FlashTable

Tables == {NoTable, EepromTable, Flash1MTable, FlashTable}

LEMMA TableSmall ==
    ASSUME NEW table \in Tables, NEW type \in DOMAIN table, NEW e \in table[type]
    PROVE  e.writes \in Seq(SmallWrites)
  <1>1. CASE table = NoTable  BY <1>1 DEF NoTable
  <1>2. CASE table = EepromTable  BY <1>2, EepromTableSmall
  <1>3. CASE table = Flash1MTable  BY <1>3, Flash1MTableSmall
  <1>4. CASE table = FlashTable  BY <1>4, FlashTableSmall
  <1> QED  BY <1>1, <1>2, <1>3, <1>4 DEF Tables

LEMMA MarkFits ==
    ASSUME NEW table \in Tables, NEW ver, NEW m, m.at \in Nat
    PROVE  /\ AllFit(ApplyMark(table, ver, m).writes)
           /\ ApplyMark(table, ver, m).error \in BOOLEAN
  <1> DEFINE fits == IF m.type \in DOMAIN table
                     THEN {e \in table[m.type] : ver \in e.versions} ELSE {}
             ws == (CHOOSE e \in fits : TRUE).writes
  <1>1. CASE fits = {}
    <2>1. ApplyMark(table, ver, m).writes = <<>>  BY <1>1 DEF ApplyMark
    <2>2. <<>> \in Seq(SmallWrites)  OBVIOUS
    <2> QED  BY <2>1, <2>2, SmallAllFit DEF ApplyMark
  <1>2. CASE fits # {}
    <2>1. PICK e \in fits : e = CHOOSE d \in fits : TRUE  BY <1>2
    <2>2. m.type \in DOMAIN table /\ e \in table[m.type]  BY <2>1
    <2>3. e.writes \in Seq(SmallWrites)  BY <2>2, TableSmall
    <2>4. ApplyMark(table, ver, m).writes = Shift(m.at, e.writes)
      BY <1>2, <2>1 DEF ApplyMark
    <2> QED  BY <2>3, <2>4, ShiftFits, SmallAllFit DEF ApplyMark
  <1> QED  BY <1>1, <1>2

LEMMA NesFits ==
    ASSUME NEW cart, cart.nes \in Nat
    PROVE  AllFit(PatchNes(cart).writes)
  <1> DEFINE S == Writes
             head == <<W(36 + cart.nes * 4, 4), W(\hff800, 832), W(\hff840, 4)>>
             tail == IF cart.nes2 THEN <<W(\hff86c, 4)>> ELSE <<>>
  <1>1. CASE cart.nes = 0
    <2>1. PatchNes(cart).writes = <<>>  BY <1>1 DEF PatchNes, NotApplied, Family
    <2>2. <<>> \in Seq(SmallWrites)  OBVIOUS
    <2> QED  BY <2>1, <2>2, SmallAllFit
  <1>2. CASE cart.nes # 0
    <2>1. PatchNes(cart).writes = head \o tail  BY <1>2 DEF PatchNes, Family
    <2>2. 36 + cart.nes * 4 \in Nat  OBVIOUS
    <2>3. head \in Seq(S) /\ tail \in Seq(S)
      <3>1. W(36 + cart.nes * 4, 4) \in S /\ W(\hff800, 832) \in S /\ W(\hff840, 4) \in S
            /\ W(\hff86c, 4) \in S
        BY <2>2 DEF W, Writes
      <3>2. head \in Seq(S)  BY <3>1
      <3>3. tail \in Seq(S)  BY <3>1
      <3> QED  BY <3>2, <3>3
    <2>4. Fits(1046528, 832)
      <3>1. 1046528 % EPageSize = 260096  BY PageAssumption
      <3> QED  BY <3>1, PageAssumption DEF Fits, PageOf
    <2>5. Fits(36 + cart.nes * 4, 4) /\ Fits(1046592, 4) /\ Fits(1046636, 4)
      BY <2>2, SmallFits
    <2>6. \A k \in DOMAIN head : Fits(head[k].at, head[k].len)
      BY <2>4, <2>5 DEF W
    <2>7. \A k \in DOMAIN tail : Fits(tail[k].at, tail[k].len)
      BY <2>5 DEF W
    <2> HIDE DEF head, tail
    <2>8. head \o tail \in Seq(S)  BY <2>3
    <2>9. ASSUME NEW k \in DOMAIN (head \o tail)
          PROVE  Fits((head \o tail)[k].at, (head \o tail)[k].len)
      <3>1. CASE k <= Len(head)
        <4>1. (head \o tail)[k] = head[k] /\ k \in DOMAIN head  BY <2>3, <3>1
        <4> QED  BY <2>6, <4>1
      <3>2. CASE k > Len(head)
        <4>1. (head \o tail)[k] = tail[k - Len(head)] /\ k - Len(head) \in DOMAIN tail
          BY <2>3, <3>2
        <4> QED  BY <2>7, <4>1
      <3>3. k \in Int /\ Len(head) \in Int  BY <2>3, <2>8
      <3> QED  BY <3>1, <3>2, <3>3
    <2> QED  BY <2>1, <2>8, <2>9 DEF AllFit
  <1> QED  BY <1>1, <1>2

LEMMA Eeprom111Fits ==
    ASSUME NEW cart, cart.eeprom111 \in 0..6
    PROVE  PatchEEPROM111(cart) \in Seq(SmallWrites)
  <1>1. CASE cart.eeprom111 = 0  BY <1>1 DEF PatchEEPROM111
  <1>2. CASE cart.eeprom111 # 0
    <2> DEFINE i == cart.eeprom111
    <2>1. i \in 1..6  BY <1>2
    <2>2. Patch111Offsets[i] \in Nat  BY <2>1 DEF Patch111Offsets
    <2>3. Patch111Offsets2[i] \in Nat  BY <2>1 DEF Patch111Offsets2
    <2>4. Patch111Offsets3[i] \in Nat /\ Patch111Offsets3[i] + 184 \in Nat
      BY <2>1 DEF Patch111Offsets3
    <2>5. /\ W(Patch111Offsets[i], 8) \in SmallWrites /\ W(Patch111Offsets2[i], 8) \in SmallWrites
          /\ W(Patch111Offsets3[i], 184) \in SmallWrites
          /\ W(Patch111Offsets3[i] + 184, 4) \in SmallWrites
      BY <2>2, <2>3, <2>4, SmallWrite
    <2>6. PatchEEPROM111(cart) = <<W(Patch111Offsets[i], 8), W(Patch111Offsets2[i], 8),
              W(Patch111Offsets3[i], 184), W(Patch111Offsets3[i] + 184, 4)>>
      BY <1>2 DEF PatchEEPROM111
    <2> HIDE DEF i
    <2> QED  BY <2>5, <2>6
  <1> QED  BY <1>1, <1>2

LEMMA SaveFits ==
    ASSUME NEW cart, cart.nes \in Nat, cart.eeprom111 \in 0..6, NEW found
    PROVE  /\ AllFit(PatchSave(cart, found).writes)
           /\ PatchSave(cart, found).table \in Tables
           /\ PatchSave(cart, found).error \in BOOLEAN
  <1> DEFINE Good(f) == AllFit(f.writes) /\ f.table \in Tables /\ f.error \in BOOLEAN
  <1>1. <<>> \in Seq(SmallWrites)  OBVIOUS
  <1>2. AllFit(<<>>)  BY <1>1, SmallAllFit
  <1>3. ASSUME NEW a, NEW s, NEW ws, NEW er \in BOOLEAN, AllFit(ws)
        PROVE  Good(Family(a, s, ws, er))
    BY <1>3 DEF Family, Tables
  <1>4. ASSUME NEW s, NEW t \in Tables, NEW v
        PROVE  Good(WithTable(s, t, v))
    BY <1>2 DEF WithTable, Family
  <1>5. Good(NotApplied) /\ Good(Conflict)  BY <1>2 DEF NotApplied, Conflict, Family, Tables
  <1>11. Good([NotApplied EXCEPT !.save = 128 * 1024])
    BY <1>2 DEF NotApplied, Family, Tables
  <1>6. Good(PatchNes(cart))
    <2>1. PatchNes(cart).table = NoTable /\ PatchNes(cart).error = FALSE
      BY DEF PatchNes, NotApplied, Family
    <2> QED  BY <2>1, NesFits DEF Tables
  <1>7. Good(PatchSRAM(found))
    <2> DEFINE f == Family(TRUE, 32 * 1024, <<>>, FALSE)
    <2>1. PatchSRAM(found) = NotApplied \/ PatchSRAM(found) = f  BY DEF PatchSRAM
    <2>2. Good(f)  BY <1>2 DEF Family, Tables
    <2> HIDE DEF Good, f
    <2>3. CASE PatchSRAM(found) = NotApplied  BY <1>5, <2>3
    <2>4. CASE PatchSRAM(found) = f  BY <2>2, <2>4
    <2> QED  BY <2>1, <2>3, <2>4
  <1>8. Good(PatchEEPROM(cart, found))
    <2> DEFINE labels == Labels(found, {"EEEPROMLabel"})
               listed == PatchEEPROM111(cart)
    <2>1. AllFit(listed)  BY Eeprom111Fits, SmallAllFit
    <2>2. EepromTable \in Tables  BY DEF Tables
    <2> DEFINE f1 == Family(TRUE, 512, listed, FALSE)
               f2 == WithTable(8 * 1024, EepromTable, labels[1].ver)
    <2>3. Good(f1)  BY <2>1 DEF Family, Tables
    <2>4. Good(f2)  BY <1>4, <2>2
    <2>5. PatchEEPROM(cart, found) =
             IF labels = <<>> THEN NotApplied ELSE IF TwoVersions(labels) THEN Conflict
             ELSE IF labels[1].ver = 111 THEN f1 ELSE f2
      BY Zenon DEF PatchEEPROM
    <2> HIDE DEF Good, labels, listed, f1, f2
    <2> QED  BY <1>5, <2>3, <2>4, <2>5
  <1>9. Good(PatchFLASH1M_V10X(found))
    <2>1. Flash1MTable \in Tables  BY DEF Tables
    <2> HIDE DEF Good
    <2> QED  BY <1>4, <1>5, <2>1 DEF PatchFLASH1M_V10X
  <1>10. Good(PatchFLASH(found))
    <2>1. FlashTable \in Tables  BY DEF Tables
    <2> HIDE DEF Good
    <2> QED  BY <1>4, <1>5, <2>1 DEF PatchFLASH
  <1> HIDE DEF Good
  <1>12. Good(PatchSave(cart, found))
    BY <1>6, <1>7, <1>8, <1>9, <1>10, <1>11 DEF PatchSave
  <1> QED  BY <1>12 DEF Good

LEMMA DbzFits ==
    ASSUME NEW cart
    PROVE  PatchDragonBallZ(cart) \in Seq(SmallWrites)
  <1>1. ASSUME NEW n \in Nat, NEW offsets \in Seq(Nat)
        PROVE  Each(offsets, n, 2) \in Seq(SmallWrites)
    <2>1. ASSUME NEW k \in DOMAIN offsets  PROVE W(offsets[k] + n, 2) \in SmallWrites
      <3> DEFINE a == offsets[k] + n
      <3>1. a \in Nat  OBVIOUS
      <3> HIDE DEF a
      <3>2. W(a, 2) \in SmallWrites  BY <3>1, SmallWrite
      <3> QED  BY <3>2 DEF a
    <2> QED  BY <2>1 DEF Each
  <1>2. DbzOffsets1 \in Seq(Nat)  BY DEF DbzOffsets1
  <1>3. DbzOffsets2 \in Seq(Nat)  BY DEF DbzOffsets2
  <1>4. Each(DbzOffsets1, 0, 2) \in Seq(SmallWrites) /\ Each(DbzOffsets2, 0, 2) \in Seq(SmallWrites)
    BY <1>1, <1>2, <1>3
  <1>5. Append(Each(DbzOffsets2, \h40000, 2), W(\hbb9016, 2)) \in Seq(SmallWrites)
    <2>1. Each(DbzOffsets2, \h40000, 2) \in Seq(SmallWrites)  BY <1>1, <1>3
    <2> QED  BY <2>1, SmallWrite
  <1>6. /\ <<W(\h6f42b2, 2)>> \in Seq(SmallWrites) /\ <<W(\h3b8e9e, 2)>> \in Seq(SmallWrites)
        /\ <<W(\h3fc8f6, 2)>> \in Seq(SmallWrites)
    BY SmallWrite
  <1>7. <<>> \in Seq(SmallWrites)  OBVIOUS
  <1> QED  BY <1>4, <1>5, <1>6, <1>7 DEF PatchDragonBallZ

\* The places of the list of sleep patches, each style under the indexes it is for.
LEMMA SleepPlaces ==
    ASSUME NEW i \in Int
    PROVE  /\ i \in 0..9 => SleepOffsets.baldur[i + 1] \in Nat
           /\ i \in 10..15 => SleepOffsets.rayman3[i - 9] \in Nat
           /\ i \in 16..32 => SleepOffsets.zelda2[i - 15] \in Nat
           /\ i \in 57..68 => SleepOffsets.nes[i - 56] \in Nat
           /\ i \in 74..75 => SleepOffsets.prince[i - 73] \in Nat
  BY DEF SleepOffsets

LEMMA PairedPlaces ==
    /\ \A k \in 1..14 : SleepOffsets["mario"][2 * k] \in Nat /\ SleepOffsets["mario"][2 * k - 1] \in Nat
    /\ \A k \in 1..2 : SleepOffsets["drmario"][2 * k] \in Nat /\ SleepOffsets["drmario"][2 * k - 1] \in Nat
    /\ \A k \in 1..2 : SleepOffsets["goldensun2"][2 * k] \in Nat /\ SleepOffsets["goldensun2"][2 * k - 1] \in Nat
    /\ \A k \in 1..4 : SleepOffsets["goldensun"][2 * k] \in Nat /\ SleepOffsets["goldensun"][2 * k - 1] \in Nat
  BY DEF SleepOffsets

LEMMA PairFits ==
    ASSUME NEW style, NEW k, NEW found,
           SleepOffsets[style][2 * k] \in Nat, SleepOffsets[style][2 * k - 1] \in Nat
    PROVE  /\ Pair(style, k, 2) \in Seq(SmallWrites)
           /\ GoldenSun(style, k, found) \in Seq(SmallWrites)
  <1> DEFINE m == SleepOffsets[style][2 * k - 1]
             n == SleepOffsets[style][2 * k]
  <1>1. m \in Nat /\ n \in Nat  OBVIOUS
  <1>2. \/ GoldenSun(style, k, found) = <<W(m, 10), W(n + 8, 28)>>
        \/ GoldenSun(style, k, found) = <<>>
    BY DEF GoldenSun
  <1>3. Pair(style, k, 2) = <<W(m, 2), W(n, 2)>>  BY DEF Pair
  <1> HIDE DEF m, n
  <1>4. n + 8 \in Nat  BY <1>1
  <1>5. /\ W(m, 10) \in SmallWrites /\ W(n + 8, 28) \in SmallWrites
        /\ W(m, 2) \in SmallWrites /\ W(n, 2) \in SmallWrites
    BY <1>1, <1>4, SmallWrite
  <1>6. <<>> \in Seq(SmallWrites)  OBVIOUS
  <1>7. <<W(m, 10), W(n + 8, 28)>> \in Seq(SmallWrites) /\ <<W(m, 2), W(n, 2)>> \in Seq(SmallWrites)
    BY <1>5
  <1> QED  BY <1>2, <1>3, <1>6, <1>7

LEMMA SingleFits ==
    ASSUME NEW i \in 0..32
    PROVE  SleepBySingle(i) \in Seq(SmallWrites)
  <1>1. ASSUME NEW a \in Nat  PROVE <<W(a, 2)>> \in Seq(SmallWrites)
    <2>1. W(a, 2) \in SmallWrites  BY SmallWrite
    <2> QED  BY <2>1
  <1> QED  BY <1>1, SleepPlaces DEF SleepBySingle

LEMMA SeveralFits ==
    ASSUME NEW i \in 33..51
    PROVE  SleepBySeveral(i) \in Seq(SmallWrites)
  <1>1. CASE i < 47
    <2>1. i - 32 \in 1..14  BY <1>1
    <2>2. SleepBySeveral(i) = Pair("mario", i - 32, 2)  BY <1>1 DEF SleepBySeveral
    <2> QED  BY <2>1, <2>2, PairedPlaces, PairFits
  <1>2. CASE i \in 48..49
    <2>1. i - 47 \in 1..2  BY <1>2
    <2>2. SleepBySeveral(i) = Pair("drmario", i - 47, 2)  BY <1>2 DEF SleepBySeveral
    <2> QED  BY <2>1, <2>2, PairedPlaces, PairFits
  <1>3. CASE i = 47
    <2>1. SleepBySeveral(i) = <<W(\h2bd70, 2), W(\h2bd76, 2), W(\h2bdd8, 2)>>
      BY <1>3 DEF SleepBySeveral
    <2> QED  BY <2>1, SmallWrite
  <1>4. CASE i = 50
    <2>1. SleepBySeveral(i) = <<W(\h7fd8, 2), W(\h7fda, 2), W(\h7ff8, 2), W(\h803c, 2)>>
      BY <1>4 DEF SleepBySeveral
    <2> QED  BY <2>1, SmallWrite
  <1>5. CASE i = 51
    <2>1. SleepBySeveral(i) = <<W(\h7f1e, 2), W(\h7f24, 4), W(\h7f46, 8)>>
      BY <1>5 DEF SleepBySeveral
    <2> QED  BY <2>1, SmallWrite
  <1> QED  BY <1>1, <1>2, <1>3, <1>4, <1>5

LEMMA CodeFits ==
    ASSUME NEW i \in 52..77, NEW found
    PROVE  SleepByCode(i, found) \in Seq(SmallWrites)
  <1>1. CASE i < 57
    <2> DEFINE k == IF i = 52 THEN 1 ELSE 2
    <2>1. k \in 1..2  OBVIOUS
    <2>2. SleepByCode(i, found) = GoldenSun("goldensun2", k, found)  BY <1>1 DEF SleepByCode
    <2> HIDE DEF k
    <2>3. SleepOffsets["goldensun2"][2 * k] \in Nat /\ SleepOffsets["goldensun2"][2 * k - 1] \in Nat
      BY <2>1, PairedPlaces
    <2>4. GoldenSun("goldensun2", k, found) \in Seq(SmallWrites)  BY <2>3, PairFits
    <2> QED  BY <2>2, <2>4
  <1>2. CASE i \in 57..68
    <2> DEFINE a == SleepOffsets.nes[i - 56]
    <2>0. i \in Int  OBVIOUS
    <2>1. a \in Nat  BY <1>2, <2>0, SleepPlaces
    <2>2. SleepByCode(i, found) = <<W(a, 12), W(\hffb40, 56)>>  BY <1>2 DEF SleepByCode
    <2> HIDE DEF a
    <2>3. W(a, 12) \in SmallWrites /\ W(\hffb40, 56) \in SmallWrites  BY <2>1, SmallWrite
    <2> QED  BY <2>2, <2>3
  <1>3. CASE i = 69
    <2>1. SleepByCode(i, found) = <<>>  BY <1>3 DEF SleepByCode
    <2> QED  BY <2>1
  <1>4. CASE i \in 70..73
    <2>1. i - 69 \in 1..4  BY <1>4
    <2>2. SleepByCode(i, found) = GoldenSun("goldensun", i - 69, found)  BY <1>4 DEF SleepByCode
    <2> QED  BY <2>1, <2>2, PairedPlaces, PairFits
  <1>5. CASE i \in 74..75
    <2> DEFINE a == SleepOffsets.prince[i - 73]
    <2>1. a \in Nat  BY <1>5, SleepPlaces
    <2>2. SleepByCode(i, found) = <<W(a, 2), W(a + 6, 2)>>  BY <1>5 DEF SleepByCode
    <2> HIDE DEF a
    <2>3. W(a, 2) \in SmallWrites /\ W(a + 6, 2) \in SmallWrites  BY <2>1, SmallWrite
    <2> QED  BY <2>2, <2>3
  <1>6. CASE i \in 76..77
    <2>1. SleepByCode(i, found) = <<W(\h6349, 1)>>  BY <1>6 DEF SleepByCode
    <2> QED  BY <2>1, SmallWrite
  <1> QED  BY <1>1, <1>2, <1>3, <1>4, <1>5, <1>6

LEMMA SleepFits ==
    ASSUME NEW cart, cart.sleep \in Nat, NEW found
    PROVE  PatchSleepWrites(cart, found) \in Seq(SmallWrites)
  <1> DEFINE i == cart.sleep - 1
  <1>1. i \in Int  OBVIOUS
  <1>2. <<>> \in Seq(SmallWrites)  OBVIOUS
  <1>3. i \in 0..32 => SleepBySingle(i) \in Seq(SmallWrites)  BY SingleFits
  <1>4. i \in 33..51 => SleepBySeveral(i) \in Seq(SmallWrites)  BY SeveralFits
  <1>5. i \in 52..77 => SleepByCode(i, found) \in Seq(SmallWrites)  BY CodeFits
  <1>6. PatchSleepWrites(cart, found) =
            IF i < 0 \/ i > 77 THEN <<>> ELSE IF i < 33 THEN SleepBySingle(i)
            ELSE IF i < 52 THEN SleepBySeveral(i) ELSE SleepByCode(i, found)
    BY DEF PatchSleepWrites
  <1> HIDE DEF i
  <1> QED  BY <1>1, <1>2, <1>3, <1>4, <1>5, <1>6

-----------------------------------------------------------------------------
(* The inductive invariant of the patcher: types; what the registers of the *)
(* search stand for; how the three tables follow from the stores that were  *)
(* replaced; and where the writes that are not made yet will have put the   *)
(* jumps and the activations.                                               *)

Steps == {"load", "scan", "save", "marks", "abort", "dbz", "sleep", "arm", "thumb", "close",
          "done"}
Found == [type : MarkTypes, at : Nat, ver : Nat]
RegData  == {"other"} \cup {Literals[lit] : lit \in DOMAIN Literals}
RegTypes == [data : [Registers -> RegData], addr : [Registers -> Nat], last : [Registers -> Nat]]
Infos == [at : Nat, v : [kind : Kinds, n : Nat]]
HookTypes == [store : Nat, lit : Nat, arm : BOOLEAN]

PatchTypeOK ==
    /\ step \in Steps /\ game \in Roms /\ place \in {"psram", "nor"}
    /\ marks \in Seq(Found) /\ cur \in Nat \ {0} /\ todo \in Seq(Puts)
    /\ failed \in BOOLEAN /\ spilled \in BOOLEAN
    /\ at \in Nat /\ instrs \in Nat /\ regs \in RegTypes
    /\ info2 \in Seq(Infos) /\ info3 \in Seq(Infos) /\ info4 \in Seq(Infos)
    /\ hooks \in Seq(HookTypes)

Searching == step \in {"arm", "thumb"}

\* A literal that holds the address where the handler is installed, and a store
\* that the search may replace: outside such literals and before the place of
\* the appended code.
Installing(lit) == lit \in DOMAIN Literals /\ Literals[lit] = "intr" /\ Readable(lit)

Replaceable(h) ==
    LET width == IF h.arm THEN 4 ELSE 2 IN
    /\ Installing(h.lit) /\ ~NoStore(h.store)
    /\ h.store % width = 0 /\ h.store + width <= SetTrimSize

SearchInv ==
    /\ step \notin {"arm", "thumb", "close", "done"} =>
          hooks = <<>> /\ info2 = <<>> /\ info3 = <<>> /\ info4 = <<>>
    /\ Searching => SetTrimSize + PatchLength <= MaxSize[place]
    /\ \A r \in Registers : regs.data[r] = "intr" => Installing(regs.addr[r])
    /\ \A k \in DOMAIN hooks : Replaceable(hooks[k])

\* The activation of the k-th store, and the entries of the tables.
Loc(k)  == SetTrimSize + SleepSize + ActivationSize * (k - 1)
Back(h) == h.store + (IF h.arm THEN 4 ELSE 3)
BxFor(h)            == [at |-> h.store, v |-> Val("bx", 0)]
JumpFor(h, loc)       == [at |-> h.lit, v |-> Val("jump", loc)]
ActivationFor(h, loc) == [at |-> loc, v |-> Val("activation", Back(h))]
BxOf(k)         == BxFor(hooks[k])
JumpOf(k)       == JumpFor(hooks[k], Loc(k))
ActivationOf(k) == ActivationFor(hooks[k], Loc(k))

\* The stores in ARM code come first: two entries each in one table, then one
\* entry in each of two tables.
Arms == Len(hooks) - Len(info4)

TablesInv ==
    /\ Len(info3) = IF Len(hooks) < EMax THEN Len(hooks) ELSE EMax
    /\ \A k \in DOMAIN info3 : info3[k] = ActivationOf(k)
    /\ \A k \in DOMAIN info2 : info2[k].v.kind \in {"bx", "jump"}
    /\ \A k \in DOMAIN info4 : info4[k].v.kind = "bx"
    /\ step = "arm" => info4 = <<>>
    /\ Len(hooks) <= EMax =>
          /\ Arms >= 0 /\ Len(info2) = Arms + Len(hooks)
          /\ \A k \in 1..Arms : hooks[k].arm /\ info2[2 * k - 1] = BxOf(k) /\ info2[2 * k] = JumpOf(k)
          /\ \A k \in (Arms + 1)..Len(hooks) :
                ~hooks[k].arm /\ info2[Arms + k] = JumpOf(k) /\ info4[k - Arms] = BxOf(k)

\* Memory m, after the writes t, will hold a value of S in cell c; and value v,
\* because no write behind the one that puts it there covers the cell.
Covers(w, c) == w.at <= c /\ c < w.at + w.len

LandsIn(t, m, c, S) ==
    /\ \A k \in DOMAIN t : Covers(t[k], c) => t[k].v \in S
    /\ m[c] \in S \/ \E k \in DOMAIN t : Covers(t[k], c)

LandsLastIn(t, m, c, v) ==
    \/ m[c] = v /\ \A k \in DOMAIN t : ~Covers(t[k], c)
    \/ \E k \in DOMAIN t :
          /\ Covers(t[k], c) /\ t[k].v = v
          /\ \A j \in DOMAIN t : Covers(t[j], c) => j <= k

\* Jumps through the literal of the k-th store; whether that store is the last.
JumpsBy(k) == {Val("jump", Loc(j)) : j \in {i \in DOMAIN hooks : hooks[i].lit = hooks[k].lit}}
IsLast(k)  == \A j \in DOMAIN hooks : hooks[j].lit = hooks[k].lit => j <= k

HookLandsIn(t, m, k) ==
    /\ hooks[k].store \in Cells => LandsIn(t, m, hooks[k].store, {Val("bx", 0)})
    /\ hooks[k].lit \in Cells =>
          /\ LandsIn(t, m, hooks[k].lit, JumpsBy(k))
          /\ IsLast(k) => LandsLastIn(t, m, hooks[k].lit, Val("jump", Loc(k)))
    /\ Loc(k) \in Cells => LandsIn(t, m, Loc(k), {Val("activation", Back(hooks[k]))})

HookLands(k) == HookLandsIn(todo, image, k)

LandInv ==
    step \in {"close", "done"} /\ Len(hooks) <= EMax => \A k \in DOMAIN hooks : HookLands(k)

\* While the patcher works the buffer hides nothing, unless a write has run past
\* the guard; when it is done without an error, the writer has been closed.
ArriveInv ==
    /\ step = "abort" => failed
    /\ step = "done" => todo = <<>>
    /\ place = "psram" => \A x \in Cells : flash[x] = image[x]
    /\ place = "nor" /\ ~spilled /\ step # "done" => WriterInv
    /\ place = "nor" /\ ~spilled /\ step = "done" /\ ~failed => WrittenThrough


\* What a library of save patches skips is a number of words.
LEMMA AfterNat == \A m \in Found : AfterMark(m) \in Nat
  <1>1. \A type \in MarkTypes : Skipped(type) \in Nat
    <2>1. \A type \in DOMAIN SkippedLabel : SkippedLabel[type] \in Nat  BY DEF SkippedLabel
    <2>2. \A type \in DOMAIN SkippedEeprom : SkippedEeprom[type] \in Nat  BY DEF SkippedEeprom
    <2>3. \A type \in DOMAIN SkippedFlash : SkippedFlash[type] \in Nat  BY DEF SkippedFlash
    <2> QED  BY <2>1, <2>2, <2>3 DEF Skipped, MarkTypes
  <1> QED  BY <1>1 DEF AfterMark, Found

LEMMA RomIs ==
    ASSUME PatchTypeOK
    PROVE  /\ game.size \in Nat /\ game.last \in Nat /\ game.last < game.size
           /\ game.nes \in Nat /\ game.eeprom111 \in 0..6 /\ game.sleep \in Nat
           /\ game.marks \in Seq(Found)
  BY RomsAssumption DEF PatchTypeOK, Found

\* The place of the appended code is behind the data of the game, and a word
\* that begins in the data of the game ends before it.
LEMMA TrimBehind ==
    ASSUME PatchTypeOK
    PROVE  /\ SetTrimSize \in Nat /\ game.last < SetTrimSize
           /\ \A lit \in Nat : lit <= game.last /\ lit + 4 <= game.size => lit + 4 <= SetTrimSize
  <1> DEFINE align(n) == n + (16 - (n % 16))
             top == game.size - 2 - PatchLength - 16
             most == IF game.last > top THEN game.last ELSE top
  <1>1. /\ game.size \in Nat /\ game.last \in Nat /\ game.last < game.size
    BY RomIs
  <1>2. \A n \in Nat : align(n) \in Nat /\ align(n) > n  OBVIOUS
  <1>3. top \in Int  BY <1>1 DEF PatchLength
  <1>4. SetTrimSize = IF top < 0 THEN game.size
                      ELSE IF align(most + 4) > align(game.size) THEN align(game.size)
                      ELSE align(most + 4)
    BY DEF SetTrimSize
  <1> HIDE DEF top
  <1>5. top >= 0 => most + 4 \in Nat /\ most >= game.last  BY <1>1, <1>3
  <1> HIDE DEF align, most
  <1>6. CASE top < 0  BY <1>1, <1>4, <1>6
  <1>7. CASE top >= 0
    <2>1. align(most + 4) \in Nat /\ align(most + 4) > most + 4 /\ most >= game.last /\ most \in Int
      <3>1. most \in Int  BY <1>1, <1>3 DEF most
      <3> QED  BY <1>2, <1>5, <1>7, <3>1
    <2>2. align(game.size) \in Nat /\ align(game.size) > game.size  BY <1>1, <1>2
    <2>3. SetTrimSize = align(game.size) \/ SetTrimSize = align(most + 4)
      BY <1>3, <1>4, <1>7
    <2> QED  BY <1>1, <2>1, <2>2, <2>3
  <1> QED  BY <1>3, <1>6, <1>7

LEMMA EMaxNat == EMax \in Nat /\ EMax <= 32
  BY EMaxAssumption

IsAdded(s, list, x, room, S) ==
    /\ s \in Seq(S)
    /\ Len(list) < room =>
          /\ Len(s) = Len(list) + 1 /\ s[Len(list) + 1] = x
          /\ \A k \in 1..Len(list) : s[k] = list[k]
    /\ Len(list) >= room => s = list

LEMMA AddedIs ==
    ASSUME NEW S, NEW list \in Seq(S), NEW x \in S, NEW room \in Nat
    PROVE  IsAdded(Added(list, x, room), list, x, room, S)
  <1>1. Len(list) \in Nat  OBVIOUS
  <1>2. CASE Len(list) < room  BY <1>1, <1>2 DEF Added, IsAdded
  <1>3. CASE ~(Len(list) < room)  BY <1>1, <1>3 DEF Added, IsAdded
  <1> QED  BY <1>2, <1>3, <1>1

LEMMA AddedSeq ==
    ASSUME NEW S, NEW list \in Seq(S), NEW x \in S, NEW room \in Nat
    PROVE  Added(list, x, room) \in Seq(S)
  BY AddedIs DEF IsAdded

\* What the patch steps give the writer: the patches of the lists, each within
\* the guard wherever it begins.
LEMMA PatchStepsFit ==
    ASSUME PatchTypeOK
    PROVE  /\ AllFit(PatchSave(game, marks).writes)
           /\ PatchSave(game, marks).table \in Tables
           /\ PatchSave(game, marks).error \in BOOLEAN
           /\ \A k \in 1..Len(marks) :
                 LET f == PatchSave(game, marks)
                     done == ApplyMark(f.table, f.ver, marks[k])
                 IN  AllFit(done.writes) /\ done.error \in BOOLEAN
           /\ AllFit(PatchDragonBallZ(game))
           /\ AllFit(PatchSleepWrites(game, marks))
  <1>1. /\ AllFit(PatchSave(game, marks).writes) /\ PatchSave(game, marks).table \in Tables
        /\ PatchSave(game, marks).error \in BOOLEAN
    BY RomIs, SaveFits
  <1>2. ASSUME NEW k \in 1..Len(marks)
        PROVE  LET f == PatchSave(game, marks)
                   done == ApplyMark(f.table, f.ver, marks[k])
               IN  AllFit(done.writes) /\ done.error \in BOOLEAN
    <2>1. marks[k] \in Found  BY DEF PatchTypeOK
    <2>2. marks[k].at \in Nat  BY <2>1 DEF Found
    <2> QED  BY <1>1, <2>2, MarkFits
  <1>3. AllFit(PatchDragonBallZ(game))  BY DbzFits, SmallAllFit
  <1>4. AllFit(PatchSleepWrites(game, marks))  BY RomIs, SleepFits, SmallAllFit
  <1> QED  BY <1>1, <1>2, <1>3, <1>4

\* A step of the patcher gives the writer only writes with a kind of their own.
PatchesOnly(t) ==
    /\ t \in Seq(Puts)
    /\ \A k \in DOMAIN t : t[k].v.kind = "patch" /\ Fits(t[k].at, t[k].len)

LEMMA OnlyPatches ==
    ASSUME PatchTypeOK, Save \/ SaveMark \/ Cracks \/ PatchSleep
    PROVE  PatchesOnly(todo') /\ failed' \in BOOLEAN
  <1>1. CASE Save
    BY <1>1, PatchStepsFit, PatchesFit DEF Save, PatchesOnly
  <1>2. CASE SaveMark
    <2>1. cur \in 1..Len(marks)  BY <1>2 DEF SaveMark, PatchTypeOK
    <2> QED  BY <1>2, <2>1, PatchStepsFit, PatchesFit DEF SaveMark, PatchesOnly
  <1>3. CASE Cracks
    BY <1>3, PatchStepsFit, PatchesFit DEF Cracks, PatchesOnly, PatchTypeOK
  <1>4. CASE PatchSleep
    BY <1>4, PatchStepsFit, PatchesFit DEF PatchSleep, PatchesOnly, PatchTypeOK
  <1> QED  BY <1>1, <1>2, <1>3, <1>4

LEMMA InfoIs ==
    ASSUME NEW a \in Nat, NEW kind \in Kinds, NEW n \in Nat
    PROVE  /\ [at |-> a, v |-> Val(kind, n)] \in Infos
           /\ [at |-> a, v |-> Val(kind, n)].at = a
           /\ [at |-> a, v |-> Val(kind, n)].v = Val(kind, n)
  <1>1. Val(kind, n) \in [kind : Kinds, n : Nat]  BY DEF Val
  <1> QED  BY <1>1 DEF Infos

LEMMA KindsAre == "patch" \in Kinds /\ "bx" \in Kinds /\ "jump" \in Kinds /\ "sleep" \in Kinds
                  /\ "activation" \in Kinds
  BY DEF Kinds

\* The writes that a table is turned into.
PutsOf(list, len) == [k \in DOMAIN list |-> Put(list[k].at, len, list[k].v)]

LEMMA PutsOfIs ==
    ASSUME NEW list \in Seq(Infos), NEW len \in Nat
    PROVE  /\ PutsOf(list, len) \in Seq(Puts) /\ Len(PutsOf(list, len)) = Len(list)
           /\ \A k \in 1..Len(list) :
                 /\ PutsOf(list, len)[k].at = list[k].at /\ PutsOf(list, len)[k].len = len
                 /\ PutsOf(list, len)[k].v = list[k].v
  <1>1. Len(list) \in Nat /\ DOMAIN list = 1..Len(list)  OBVIOUS
  <1>2. ASSUME NEW k \in 1..Len(list)
        PROVE  /\ Put(list[k].at, len, list[k].v) \in Puts
               /\ Put(list[k].at, len, list[k].v).at = list[k].at
               /\ Put(list[k].at, len, list[k].v).len = len
               /\ Put(list[k].at, len, list[k].v).v = list[k].v
    <2>1. list[k] \in Infos  BY <1>1
    <2>2. list[k].at \in Nat /\ list[k].v \in [kind : Kinds, n : Nat]  BY <2>1 DEF Infos
    <2> QED  BY <2>2 DEF Put, Puts
  <1>3. PutsOf(list, len) = [k \in 1..Len(list) |-> Put(list[k].at, len, list[k].v)]
    BY <1>1 DEF PutsOf
  <1> QED  BY <1>1, <1>2, <1>3

\* What the search does with a store: it is one that may be replaced, and a
\* literal leads through its register to a new activation.
StoreOf(rn, gap) == [store |-> at + gap, lit |-> regs.addr[rn], arm |-> step = "arm"]

LEMMA StrIs ==
    ASSUME PatchTypeOK, SearchInv, NEW rd \in Registers, NEW rn \in Registers, NEW gap \in Gaps,
           Str(rd, rn, gap)
    PROVE  LET h == StoreOf(rn, gap)
               n == Len(hooks) + 1
           IN  /\ h \in HookTypes /\ hooks' = Append(hooks, h) /\ (h.arm <=> step = "arm")
               /\ Replaceable(h) /\ Searching /\ at' \in Nat
               /\ BxFor(h) \in Infos /\ JumpFor(h, Loc(n)) \in Infos /\ ActivationFor(h, Loc(n)) \in Infos
               /\ info2' = IF step = "arm"
                           THEN Added(Added(info2, BxFor(h), 2 * EMax), JumpFor(h, Loc(n)), 2 * EMax)
                           ELSE Added(info2, JumpFor(h, Loc(n)), 2 * EMax)
               /\ info4' = IF step = "arm" THEN info4 ELSE Added(info4, BxFor(h), EMax)
               /\ info3' = Added(info3, ActivationFor(h, Loc(n)), EMax)
  <1> DEFINE a == at + gap
             h == [store |-> a, lit |-> regs.addr[rn], arm |-> step = "arm"]
             n == Len(hooks) + 1
  <1>1. a \in Nat  BY SearchAssumption DEF PatchTypeOK
  <1>2. regs.addr[rn] \in Nat  BY DEF PatchTypeOK, RegTypes
  <1>3. h \in HookTypes  BY <1>1, <1>2 DEF HookTypes
  <1>4. regs.data[rn] = "intr"  BY DEF Str, Installs, KnownPlace
  <1>5. Installing(regs.addr[rn])  BY <1>4 DEF SearchInv
  <1>6. step \in {"arm", "thumb"} /\ InSearch(a) /\ ~NoStore(a) /\ at' = a /\ hooks' = Append(hooks, h)
    BY DEF Str
  <1>7. Replaceable(h)  BY <1>5, <1>6 DEF Replaceable, InSearch
  <1>8. n \in Nat /\ Loc(n) \in Nat /\ Loc(n) = SetTrimSize + SleepSize + ActivationSize * Len(hooks)
    <2>1. Len(hooks) \in Nat  BY DEF PatchTypeOK
    <2> QED  BY <2>1, TrimBehind DEF Loc, SleepSize, ActivationSize
  <1>9. Back(h) \in Nat /\ Back(h) = IF step = "arm" THEN a + 4 ELSE a + 3
    <2>1. CASE step = "arm"
      <3>1. h.store = a /\ (h.arm <=> TRUE)  BY <2>1
      <3> QED  BY <1>1, <2>1, <3>1 DEF Back
    <2>2. CASE step # "arm"
      <3>1. h.store = a /\ (h.arm <=> FALSE)  BY <2>2
      <3> QED  BY <1>1, <2>2, <3>1 DEF Back
    <2> QED  BY <2>1, <2>2
  <1>10. BxFor(h) = [at |-> a, v |-> Val("bx", 0)]  BY DEF BxFor
  <1>11. JumpFor(h, Loc(n)) = [at |-> regs.addr[rn], v |-> Val("jump", Loc(n))]  BY DEF JumpFor
  <1>12. BxFor(h) \in Infos  BY <1>1, <1>10, KindsAre, InfoIs
  <1>13. JumpFor(h, Loc(n)) \in Infos  BY <1>2, <1>8, <1>11, KindsAre, InfoIs
  <1>14. ActivationFor(h, Loc(n)) \in Infos  BY <1>8, <1>9, KindsAre, InfoIs DEF ActivationFor
  <1>15. /\ info2' = IF step = "arm"
                     THEN Added(Added(info2, BxFor(h), 2 * EMax), JumpFor(h, Loc(n)), 2 * EMax)
                     ELSE Added(info2, JumpFor(h, Loc(n)), 2 * EMax)
         /\ info4' = IF step = "arm" THEN info4 ELSE Added(info4, BxFor(h), EMax)
         /\ info3' = Added(info3, ActivationFor(h, Loc(n)), EMax)
    BY <1>8, <1>9, <1>10, <1>11 DEF Str, ActivationFor
  <1>16. h = StoreOf(rn, gap) /\ (h.arm <=> step = "arm")  BY DEF StoreOf
  <1> HIDE DEF h
  <1> QED  BY <1>1, <1>3, <1>6, <1>7, <1>12, <1>13, <1>14, <1>15, <1>16 DEF Searching

\* The writes of CommonSleepPatch: the two tables of stores, the sleep routine,
\* the activations.
SleepPut == Put(SetTrimSize, SleepSize, Val("sleep", 0))
AppendPuts ==
    PutsOf(info2, 4) \o PutsOf(info4, 2) \o <<SleepPut>> \o PutsOf(info3, ActivationSize)

LEMMA TwoParts ==
    ASSUME NEW S, NEW s \in Seq(S), NEW t \in Seq(S)
    PROVE  /\ s \o t \in Seq(S) /\ Len(s \o t) = Len(s) + Len(t)
           /\ \A k \in 1..Len(s) : (s \o t)[k] = s[k]
           /\ \A k \in 1..Len(t) : (s \o t)[Len(s) + k] = t[k]
  <1>1. Len(s) \in Nat /\ Len(t) \in Nat  OBVIOUS
  <1>2. s \o t \in Seq(S) /\ Len(s \o t) = Len(s) + Len(t)  OBVIOUS
  <1>3. \A k \in 1..Len(s) : (s \o t)[k] = s[k]  BY <1>1
  <1>4. ASSUME NEW k \in 1..Len(t)  PROVE (s \o t)[Len(s) + k] = t[k]
    <2>1. Len(s) + k \in 1..(Len(s) + Len(t)) /\ Len(s) + k > Len(s)  BY <1>1
    <2> QED  BY <1>1, <2>1
  <1> QED  BY <1>2, <1>3, <1>4

LEMMA OneMore ==
    ASSUME NEW S, NEW s \in Seq(S), NEW x \in S
    PROVE  /\ s \o <<x>> \in Seq(S) /\ Len(s \o <<x>>) = Len(s) + 1
           /\ \A k \in 1..Len(s) : (s \o <<x>>)[k] = s[k]
           /\ (s \o <<x>>)[Len(s) + 1] = x
  <1>1. s \o <<x>> = Append(s, x)  OBVIOUS
  <1>2. Len(s) \in Nat  OBVIOUS
  <1> QED  BY <1>1, <1>2

IsFourParts(s, s2, s4, x, s3, S) ==
    LET m == Len(s2) + Len(s4) IN
    /\ s \in Seq(S) /\ DOMAIN s = 1..(m + 1 + Len(s3))
    /\ \A k \in 1..Len(s2) : s[k] = s2[k]
    /\ \A k \in 1..Len(s4) : s[Len(s2) + k] = s4[k]
    /\ s[m + 1] = x
    /\ \A k \in 1..Len(s3) : s[m + 1 + k] = s3[k]

LEMMA FourParts ==
    ASSUME NEW S, NEW s2 \in Seq(S), NEW s4 \in Seq(S), NEW x \in S, NEW s3 \in Seq(S)
    PROVE  IsFourParts(s2 \o s4 \o <<x>> \o s3, s2, s4, x, s3, S)
  <1>1. Len(s2) \in Nat /\ Len(s4) \in Nat /\ Len(s3) \in Nat  OBVIOUS
  <1> DEFINE a == s2 \o s4
             b == a \o <<x>>
  <1>2. /\ a \in Seq(S) /\ Len(a) = Len(s2) + Len(s4)
        /\ \A k \in 1..Len(s2) : a[k] = s2[k]
        /\ \A k \in 1..Len(s4) : a[Len(s2) + k] = s4[k]
    BY TwoParts
  <1> HIDE DEF a
  <1>3. /\ b \in Seq(S) /\ Len(b) = Len(a) + 1
        /\ \A k \in 1..Len(a) : b[k] = a[k]
        /\ b[Len(a) + 1] = x
    BY <1>2, OneMore
  <1> HIDE DEF b
  <1>a. b \o s3 \in Seq(S) /\ Len(b \o s3) = Len(b) + Len(s3)  BY <1>3, TwoParts
  <1>b. \A k \in 1..Len(b) : (b \o s3)[k] = b[k]  BY <1>3, TwoParts
  <1>c. \A k \in 1..Len(s3) : (b \o s3)[Len(b) + k] = s3[k]  BY <1>3, TwoParts
  <1>4. /\ b \o s3 \in Seq(S) /\ Len(b \o s3) = Len(b) + Len(s3)
        /\ \A k \in 1..Len(b) : (b \o s3)[k] = b[k]
        /\ \A k \in 1..Len(s3) : (b \o s3)[Len(b) + k] = s3[k]
    BY <1>a, <1>b, <1>c
  <1>5. DOMAIN (b \o s3) = 1..Len(b \o s3)  BY <1>4
  <1>6. \A k \in 1..Len(s2) : k \in 1..Len(a) /\ k \in 1..Len(b)  BY <1>1, <1>2, <1>3
  <1>7. \A k \in 1..Len(s4) : Len(s2) + k \in 1..Len(a) /\ Len(s2) + k \in 1..Len(b)
    BY <1>1, <1>2, <1>3
  <1>8. Len(a) + 1 \in 1..Len(b)  BY <1>1, <1>2, <1>3
  <1> QED  BY <1>1, <1>2, <1>3, <1>4, <1>5, <1>6, <1>7, <1>8 DEF a, b, IsFourParts

LEMMA AppendIs ==
    ASSUME PatchTypeOK
    PROVE  LET m == Len(info2) + Len(info4) IN
           /\ AppendPuts \in Seq(Puts) /\ DOMAIN AppendPuts = 1..(m + 1 + Len(info3))
           /\ \A k \in 1..Len(info2) :
                 /\ AppendPuts[k].at = info2[k].at /\ AppendPuts[k].len = 4
                 /\ AppendPuts[k].v = info2[k].v
           /\ \A k \in 1..Len(info4) :
                 /\ AppendPuts[Len(info2) + k].at = info4[k].at
                 /\ AppendPuts[Len(info2) + k].len = 2
                 /\ AppendPuts[Len(info2) + k].v = info4[k].v
           /\ AppendPuts[m + 1].at = SetTrimSize /\ AppendPuts[m + 1].len = SleepSize
           /\ AppendPuts[m + 1].v = Val("sleep", 0)
           /\ \A k \in 1..Len(info3) :
                 /\ AppendPuts[m + 1 + k].at = info3[k].at
                 /\ AppendPuts[m + 1 + k].len = ActivationSize
                 /\ AppendPuts[m + 1 + k].v = info3[k].v
  <1> DEFINE s2 == PutsOf(info2, 4)
             s4 == PutsOf(info4, 2)
             s3 == PutsOf(info3, ActivationSize)
  <1>1. /\ s2 \in Seq(Puts) /\ Len(s2) = Len(info2)
        /\ \A k \in 1..Len(info2) : s2[k].at = info2[k].at /\ s2[k].len = 4 /\ s2[k].v = info2[k].v
    <2>1. 4 \in Nat /\ info2 \in Seq(Infos)  BY DEF PatchTypeOK
    <2> QED  BY <2>1, PutsOfIs
  <1>2. /\ s4 \in Seq(Puts) /\ Len(s4) = Len(info4)
        /\ \A k \in 1..Len(info4) : s4[k].at = info4[k].at /\ s4[k].len = 2 /\ s4[k].v = info4[k].v
    <2>1. 2 \in Nat /\ info4 \in Seq(Infos)  BY DEF PatchTypeOK
    <2> QED  BY <2>1, PutsOfIs
  <1>3. /\ s3 \in Seq(Puts) /\ Len(s3) = Len(info3)
        /\ \A k \in 1..Len(info3) :
              s3[k].at = info3[k].at /\ s3[k].len = ActivationSize /\ s3[k].v = info3[k].v
    <2>1. ActivationSize \in Nat /\ info3 \in Seq(Infos)  BY DEF ActivationSize, PatchTypeOK
    <2> QED  BY <2>1, PutsOfIs
  <1>4. /\ SleepPut \in Puts /\ SleepPut.at = SetTrimSize /\ SleepPut.len = SleepSize
        /\ SleepPut.v = Val("sleep", 0)
    <2>1. SetTrimSize \in Nat /\ SleepSize \in Nat  BY TrimBehind DEF SleepSize
    <2>2. Put(SetTrimSize, SleepSize, Val("sleep", 0)) \in Puts
          /\ Put(SetTrimSize, SleepSize, Val("sleep", 0)).at = SetTrimSize
          /\ Put(SetTrimSize, SleepSize, Val("sleep", 0)).len = SleepSize
          /\ Put(SetTrimSize, SleepSize, Val("sleep", 0)).v = Val("sleep", 0)
      BY <2>1, KindsAre, PutIs
    <2> QED  BY <2>2 DEF SleepPut
  <1>5. AppendPuts = s2 \o s4 \o <<SleepPut>> \o s3  BY DEF AppendPuts
  <1> HIDE DEF s2, s3, s4
  <1>6. IsFourParts(AppendPuts, s2, s4, SleepPut, s3, Puts)
    BY <1>1, <1>2, <1>3, <1>4, <1>5, FourParts
  <1>7. AppendPuts \in Seq(Puts) /\ DOMAIN AppendPuts = 1..(Len(info2) + Len(info4) + 1 + Len(info3))
    BY <1>1, <1>2, <1>3, <1>6 DEF IsFourParts
  <1>8. \A k \in 1..Len(info2) : AppendPuts[k] = s2[k]
    BY <1>1, <1>6 DEF IsFourParts
  <1>9. \A k \in 1..Len(info4) : AppendPuts[Len(info2) + k] = s4[k]
    BY <1>1, <1>2, <1>6 DEF IsFourParts
  <1>10. AppendPuts[Len(info2) + Len(info4) + 1] = SleepPut
    BY <1>1, <1>2, <1>6 DEF IsFourParts
  <1>11. \A k \in 1..Len(info3) : AppendPuts[Len(info2) + Len(info4) + 1 + k] = s3[k]
    BY <1>1, <1>2, <1>3, <1>6 DEF IsFourParts
  <1> HIDE DEF SleepPut
  <1>12. \A k \in 1..Len(info2) :
            /\ AppendPuts[k].at = info2[k].at /\ AppendPuts[k].len = 4
            /\ AppendPuts[k].v = info2[k].v
    BY <1>1, <1>8
  <1>13. \A k \in 1..Len(info4) :
            /\ AppendPuts[Len(info2) + k].at = info4[k].at
            /\ AppendPuts[Len(info2) + k].len = 2
            /\ AppendPuts[Len(info2) + k].v = info4[k].v
    BY <1>2, <1>9
  <1>14. \A k \in 1..Len(info3) :
            /\ AppendPuts[Len(info2) + Len(info4) + 1 + k].at = info3[k].at
            /\ AppendPuts[Len(info2) + Len(info4) + 1 + k].len = ActivationSize
            /\ AppendPuts[Len(info2) + Len(info4) + 1 + k].v = info3[k].v
    BY <1>3, <1>11
  <1> QED  BY <1>4, <1>7, <1>10, <1>12, <1>13, <1>14

LEMMA PatchTypeStep ==
    ASSUME PatchTypeOK, SearchInv, [PatchNext]_patchVars
    PROVE  PatchTypeOK'
  <1> USE DEF PatchTypeOK, searchVars
  <1>1. CASE LoadRom
    BY <1>1 DEF LoadRom, Steps
  <1>2. CASE ScanMark
    <2>1. game.marks[cur] \in Found  BY <1>2, RomIs DEF ScanMark
    <2>2. AfterMark(game.marks[cur]) \in Nat  BY <2>1, AfterNat
    <2>3. Added(marks, game.marks[cur], EMax) \in Seq(Found)  BY <2>1, EMaxNat, AddedSeq
    <2>4. marks' \in Seq(Found) /\ at' \in Nat
      <3>1. CASE game.marks[cur].at >= at  BY <1>2, <2>2, <2>3, <3>1 DEF ScanMark
      <3>2. CASE ~(game.marks[cur].at >= at)  BY <1>2, <3>2 DEF ScanMark
      <3> QED  BY <3>1, <3>2
    <2>5. cur' \in Nat \ {0}  BY <1>2 DEF ScanMark
    <2> QED  BY <1>2, <2>4, <2>5 DEF ScanMark
  <1>3. CASE ScanDone
    BY <1>3 DEF ScanDone, Steps
  <1>4. CASE WriteNext
    <2>1. Tail(todo) \in Seq(Puts)  BY <1>4 DEF WriteNext
    <2>2. spilled' \in BOOLEAN  BY <1>4 DEF WriteNext
    <2> QED  BY <1>4, <2>1, <2>2 DEF WriteNext
  <1>5. CASE Save
    <2>1. todo' \in Seq(Puts) /\ failed' \in BOOLEAN  BY <1>5, OnlyPatches DEF PatchesOnly
    <2> QED  BY <1>5, <2>1 DEF Save, Steps
  <1>6. CASE SaveMark
    <2>1. todo' \in Seq(Puts) /\ failed' \in BOOLEAN  BY <1>6, OnlyPatches DEF PatchesOnly
    <2> QED  BY <1>6, <2>1 DEF SaveMark, Steps
  <1>7. CASE SaveDone
    BY <1>7 DEF SaveDone, Steps
  <1>8. CASE Abort
    BY <1>8 DEF Abort, Steps
  <1>9. CASE Cracks
    <2>1. todo' \in Seq(Puts)  BY <1>9, OnlyPatches DEF PatchesOnly
    <2> QED  BY <1>9, <2>1 DEF Cracks, Steps
  <1>10. CASE PatchSleep
    <2>1. todo' \in Seq(Puts)  BY <1>10, OnlyPatches DEF PatchesOnly
    <2> QED  BY <1>10, <2>1 DEF PatchSleep, Steps
  <1>11. ASSUME NEW rd \in Registers, NEW gap \in Gaps, NEW lit \in DOMAIN Literals, Ldr(rd, lit, gap)
         PROVE  PatchTypeOK'
    <2>1. at' \in Nat /\ instrs' \in Nat  BY <1>11, SearchAssumption DEF Ldr
    <2>2. lit \in Nat /\ Literals[lit] \in RegData  BY SearchAssumption DEF RegData
    <2>3. regs' = [regs EXCEPT !.data[rd] = Literals[lit], !.addr[rd] = lit, !.last[rd] = at']
      BY <1>11 DEF Ldr
    <2>4. regs' \in RegTypes  BY <2>1, <2>2, <2>3 DEF RegTypes
    <2> QED  BY <1>11, <2>1, <2>4 DEF Ldr
  <1>12. ASSUME NEW rd \in Registers, NEW rn \in Registers, NEW gap \in Gaps, Str(rd, rn, gap)
         PROVE  PatchTypeOK'
    <2> DEFINE h == StoreOf(rn, gap)
               n == Len(hooks) + 1
    <2>1. /\ h \in HookTypes /\ hooks' = Append(hooks, h) /\ at' \in Nat
          /\ BxFor(h) \in Infos /\ JumpFor(h, Loc(n)) \in Infos /\ ActivationFor(h, Loc(n)) \in Infos
          /\ info2' = IF step = "arm"
                      THEN Added(Added(info2, BxFor(h), 2 * EMax), JumpFor(h, Loc(n)), 2 * EMax)
                      ELSE Added(info2, JumpFor(h, Loc(n)), 2 * EMax)
          /\ info4' = IF step = "arm" THEN info4 ELSE Added(info4, BxFor(h), EMax)
          /\ info3' = Added(info3, ActivationFor(h, Loc(n)), EMax)
      BY <1>12, StrIs
    <2> HIDE DEF h, n
    <2>2. hooks' \in Seq(HookTypes)  BY <2>1
    <2>3. regs' \in RegTypes
      <3>1. "other" \in RegData  BY DEF RegData
      <3>2. [regs EXCEPT !.data[rn] = "other"] \in RegTypes  BY <3>1 DEF RegTypes
      <3>3. regs' = regs \/ regs' = [regs EXCEPT !.data[rn] = "other"]  BY <1>12 DEF Str
      <3> QED  BY <3>2, <3>3
    <2>4. EMax \in Nat /\ 2 * EMax \in Nat  BY EMaxNat
    <2>5. Added(info2, BxFor(h), 2 * EMax) \in Seq(Infos)  BY <2>1, <2>4, AddedSeq
    <2>6. info2' \in Seq(Infos) /\ info3' \in Seq(Infos) /\ info4' \in Seq(Infos)
      BY <2>1, <2>4, <2>5, AddedSeq
    <2>7. UNCHANGED <<step, game, place, marks, cur, todo, failed, spilled>>
      BY <1>12 DEF Str
    <2>8. instrs' \in Nat  BY <1>12 DEF Str
    <2> QED  BY <2>1, <2>2, <2>3, <2>6, <2>7, <2>8
  <1>13. CASE ArmDone
    <2>1. NoRegs \in RegTypes  BY DEF NoRegs, RegTypes, RegData
    <2> QED  BY <1>13, <2>1 DEF ArmDone, Steps
  <1>14. CASE CommonSleepPatch
    <2>1. todo' = IF info2 \o info4 = <<>> THEN <<>> ELSE AppendPuts
      BY <1>14 DEF CommonSleepPatch, AppendPuts, PutsOf, SleepPut
    <2>2. todo' \in Seq(Puts)  BY <2>1, AppendIs
    <2> QED  BY <1>14, <2>2 DEF CommonSleepPatch, Steps
  <1>15. CASE CloseWriter
    BY <1>15 DEF CloseWriter, Steps
  <1>16. CASE UNCHANGED patchVars
    BY <1>16 DEF patchVars
  <1> QED
    BY <1>1, <1>2, <1>3, <1>4, <1>5, <1>6, <1>7, <1>8, <1>9, <1>10, <1>11, <1>12, <1>13, <1>14,
       <1>15, <1>16 DEF PatchNext

LEMMA StrTables ==
    ASSUME PatchTypeOK, SearchInv, TablesInv,
           NEW rd \in Registers, NEW rn \in Registers, NEW gap \in Gaps, Str(rd, rn, gap)
    PROVE  TablesInv'
  <1> DEFINE h  == StoreOf(rn, gap)
             n  == Len(hooks) + 1
             bx == BxFor(h)
             jump == JumpFor(h, Loc(n))
             activation == ActivationFor(h, Loc(n))
             added == Added(info2, bx, 2 * EMax)
  <1>1. /\ h \in HookTypes /\ hooks' = Append(hooks, h) /\ (h.arm <=> step = "arm") /\ Searching
        /\ bx \in Infos /\ jump \in Infos /\ activation \in Infos
        /\ info2' = IF step = "arm" THEN Added(added, jump, 2 * EMax) ELSE Added(info2, jump, 2 * EMax)
        /\ info4' = IF step = "arm" THEN info4 ELSE Added(info4, bx, EMax)
        /\ info3' = Added(info3, activation, EMax)
    BY StrIs
  <1>2. step' = step /\ game' = game  BY DEF Str
  <1>3. \A k : Loc(k)' = Loc(k)  BY <1>2 DEF Loc, SetTrimSize
  <1>4. EMax \in Nat /\ 2 * EMax \in Nat  BY EMaxNat
  <1>5. /\ hooks \in Seq(HookTypes) /\ info2 \in Seq(Infos) /\ info3 \in Seq(Infos)
        /\ info4 \in Seq(Infos) /\ Len(hooks) \in Nat /\ Len(info2) \in Nat /\ Len(info3) \in Nat
        /\ Len(info4) \in Nat
    BY DEF PatchTypeOK
  <1>6. n \in Nat /\ Len(hooks') = n /\ hooks'[n] = h /\ \A k \in 1..Len(hooks) : hooks'[k] = hooks[k]
    BY <1>1, <1>5
  <1>7. \A k \in 1..Len(hooks) :
           BxOf(k)' = BxOf(k) /\ JumpOf(k)' = JumpOf(k) /\ ActivationOf(k)' = ActivationOf(k)
    BY <1>3, <1>6 DEF BxOf, JumpOf, ActivationOf, BxFor, JumpFor, ActivationFor
  <1>8. ASSUME NEW k, k = n
        PROVE  BxOf(k)' = bx /\ JumpOf(k)' = jump /\ ActivationOf(k)' = activation
    BY <1>3, <1>6, <1>8 DEF BxOf, JumpOf, ActivationOf, BxFor, JumpFor, ActivationFor
  <1>9. bx.v.kind = "bx" /\ jump.v.kind = "jump"  BY DEF BxFor, JumpFor, Val
  <1> HIDE DEF h, n, bx, jump, activation
  <1>10. IsAdded(added, info2, bx, 2 * EMax, Infos)
    BY <1>1, <1>4, <1>5, AddedIs
  <1>a. added \in Seq(Infos) /\ Len(added) \in Nat  BY <1>10 DEF IsAdded
  <1> HIDE DEF added
  <1>b. IsAdded(info3', info3, activation, EMax, Infos)  BY <1>1, <1>4, <1>5, AddedIs
  <1>c. step = "arm" => IsAdded(info2', added, jump, 2 * EMax, Infos)
    BY <1>1, <1>4, <1>a, AddedIs
  <1>d. step # "arm" => IsAdded(info2', info2, jump, 2 * EMax, Infos)
    BY <1>1, <1>4, <1>5, AddedIs
  <1>e. step # "arm" => IsAdded(info4', info4, bx, EMax, Infos)
    BY <1>1, <1>4, <1>5, AddedIs
  <1>11. /\ Len(info3') = IF Len(hooks') < EMax THEN Len(hooks') ELSE EMax
         /\ \A k \in DOMAIN info3' : info3'[k] = ActivationOf(k)'
    <2>1. CASE Len(info3) < EMax
      <3>1. /\ info3' \in Seq(Infos) /\ Len(info3') = Len(info3) + 1 /\ info3'[Len(info3) + 1] = activation
            /\ \A k \in 1..Len(info3) : info3'[k] = info3[k]
        BY <1>b, <2>1 DEF IsAdded
      <3>2. Len(info3) = Len(hooks) /\ Len(info3) + 1 = n
        BY <1>4, <1>5, <2>1 DEF TablesInv, n
      <3>3. \A k \in 1..Len(hooks) : info3[k] = ActivationOf(k)  BY <1>5, <3>2 DEF TablesInv
      <3>4. ASSUME NEW k \in DOMAIN info3'  PROVE info3'[k] = ActivationOf(k)'
        <4>1. k \in 1..Len(hooks) \/ k = n  BY <1>5, <3>1, <3>2
        <4> QED  BY <1>7, <1>8, <3>1, <3>2, <3>3, <4>1
      <3>5. Len(info3') = n /\ n <= EMax  BY <1>4, <1>5, <2>1, <3>1, <3>2
      <3> QED  BY <1>4, <1>6, <3>4, <3>5
    <2>2. CASE Len(info3) >= EMax
      <3>1. info3' = info3  BY <1>b, <2>2 DEF IsAdded
      <3>0. Len(info3) = IF Len(hooks) < EMax THEN Len(hooks) ELSE EMax  BY DEF TablesInv
      <3>2. Len(hooks) >= EMax /\ Len(info3) = EMax  BY <1>4, <1>5, <2>2, <3>0
      <3>3. \A k \in 1..Len(info3) : k \in 1..Len(hooks) /\ info3[k] = ActivationOf(k)
        <4>1. \A k \in 1..Len(info3) : info3[k] = ActivationOf(k)  BY <1>5 DEF TablesInv
        <4> QED  BY <1>4, <1>5, <3>2, <4>1
      <3>4. Len(hooks') >= EMax  BY <1>4, <1>5, <1>6, <3>2 DEF n
      <3> QED  BY <1>4, <1>5, <1>6, <1>7, <3>1, <3>2, <3>3, <3>4
    <2> QED  BY <1>4, <1>5, <2>1, <2>2
  <1>f. ASSUME NEW K, NEW s \in Seq(Infos), NEW x \in Infos, NEW room \in Nat, NEW t,
               IsAdded(t, s, x, room, Infos), x.v.kind \in K, \A k \in 1..Len(s) : s[k].v.kind \in K
        PROVE  \A k \in 1..Len(t) : t[k].v.kind \in K
    <2>1. Len(s) \in Nat  OBVIOUS
    <2>2. CASE Len(s) < room
      <3>1. /\ Len(t) = Len(s) + 1 /\ t[Len(s) + 1] = x
            /\ \A k \in 1..Len(s) : t[k] = s[k]
        BY <1>f, <2>2 DEF IsAdded
      <3>2. \A k \in 1..Len(t) : k \in 1..Len(s) \/ k = Len(s) + 1  BY <2>1, <3>1
      <3> QED  BY <1>f, <3>1, <3>2
    <2>3. CASE Len(s) >= room
      <3>1. t = s  BY <1>f, <2>3 DEF IsAdded
      <3> QED  BY <1>f, <3>1
    <2> QED  BY <2>1, <2>2, <2>3
  <1>12. \A k \in DOMAIN info2' : info2'[k].v.kind \in {"bx", "jump"}
    <2>1. \A k \in 1..Len(info2) : info2[k].v.kind \in {"bx", "jump"}  BY <1>5 DEF TablesInv
    <2>2. bx.v.kind \in {"bx", "jump"} /\ jump.v.kind \in {"bx", "jump"}  BY <1>9
    <2>3. CASE step = "arm"
      <3>1. \A k \in 1..Len(added) : added[k].v.kind \in {"bx", "jump"}
        BY <1>1, <1>4, <1>5, <1>10, <1>f, <2>1, <2>2
      <3>2. \A k \in 1..Len(info2') : info2'[k].v.kind \in {"bx", "jump"}
        <4> DEFINE kinds == {"bx", "jump"}
        <4>1. jump.v.kind \in kinds /\ \A k \in 1..Len(added) : added[k].v.kind \in kinds
          BY <2>2, <3>1
        <4>2. IsAdded(info2', added, jump, 2 * EMax, Infos)  BY <1>c, <2>3
        <4> HIDE DEF kinds
        <4>3. \A k \in 1..Len(info2') : info2'[k].v.kind \in kinds
          <5>1. jump \in Infos /\ 2 * EMax \in Nat  BY <1>1, <1>4
          <5> QED  BY <1>a, <1>f, <4>1, <4>2, <5>1
        <4> QED  BY <4>3 DEF kinds
      <3>3. DOMAIN info2' = 1..Len(info2')  BY <1>c, <2>3 DEF IsAdded
      <3> QED  BY <3>2, <3>3
    <2>4. CASE step # "arm"
      <3>1. \A k \in 1..Len(info2') : info2'[k].v.kind \in {"bx", "jump"}
        <4> DEFINE kinds == {"bx", "jump"}
        <4>1. jump.v.kind \in kinds /\ \A k \in 1..Len(info2) : info2[k].v.kind \in kinds
          BY <2>1, <2>2
        <4>2. IsAdded(info2', info2, jump, 2 * EMax, Infos)  BY <1>d, <2>4
        <4> HIDE DEF kinds
        <4>3. \A k \in 1..Len(info2') : info2'[k].v.kind \in kinds
          <5>1. jump \in Infos /\ 2 * EMax \in Nat  BY <1>1, <1>4
          <5> QED  BY <1>5, <1>f, <4>1, <4>2, <5>1
        <4> QED  BY <4>3 DEF kinds
      <3>2. DOMAIN info2' = 1..Len(info2')  BY <1>d, <2>4 DEF IsAdded
      <3> QED  BY <3>1, <3>2
    <2> QED  BY <2>3, <2>4
  <1>13. \A k \in DOMAIN info4' : info4'[k].v.kind = "bx"
    <2>1. \A k \in 1..Len(info4) : info4[k].v.kind \in {"bx"}  BY <1>5 DEF TablesInv
    <2>2. CASE step = "arm"
      <3>1. info4' = info4  BY <1>1, <2>2
      <3> QED  BY <3>1 DEF TablesInv
    <2>3. CASE step # "arm"
      <3>1. bx.v.kind \in {"bx"}  BY <1>9
      <3>2. \A k \in 1..Len(info4') : info4'[k].v.kind \in {"bx"}
        BY <1>1, <1>4, <1>5, <1>e, <1>f, <2>1, <2>3, <3>1
      <3>3. DOMAIN info4' = 1..Len(info4')  BY <1>e, <2>3 DEF IsAdded
      <3> QED  BY <3>2, <3>3
    <2> QED  BY <2>2, <2>3
  <1>14. step' = "arm" => info4' = <<>>
    BY <1>1, <1>2 DEF TablesInv
  <1>15. ASSUME n <= EMax
         PROVE  /\ Arms' >= 0 /\ Len(info2') = Arms' + n
                /\ \A k \in 1..Arms' : /\ hooks'[k].arm /\ info2'[2 * k - 1] = BxOf(k)'
                                        /\ info2'[2 * k] = JumpOf(k)'
                /\ \A k \in (Arms' + 1)..n :
                      /\ ~hooks'[k].arm /\ info2'[Arms' + k] = JumpOf(k)'
                      /\ info4'[k - Arms'] = BxOf(k)'
    <2> DEFINE m == Len(hooks)
               arms == Arms
    <2>1. n = m + 1 /\ m \in Nat /\ m < EMax  BY <1>4, <1>5, <1>15 DEF n
    <2>2. arms = m - Len(info4) /\ arms \in Int /\ arms <= m  BY <1>5 DEF Arms
    <2>3. /\ arms >= 0 /\ Len(info2) = arms + m
          /\ \A k \in 1..arms : hooks[k].arm /\ info2[2 * k - 1] = BxOf(k) /\ info2[2 * k] = JumpOf(k)
          /\ \A k \in (arms + 1)..m :
                ~hooks[k].arm /\ info2[arms + k] = JumpOf(k) /\ info4[k - arms] = BxOf(k)
      BY <1>4, <2>1 DEF TablesInv
    <2>4. Arms' = Len(hooks') - Len(info4')  BY DEF Arms
    <2> HIDE DEF m, arms
    <2>5. Len(info2) < 2 * EMax  BY <1>4, <2>1, <2>2, <2>3
    <2>6. CASE step = "arm"
      <3>1. info4 = <<>> /\ info4' = <<>> /\ arms = m /\ Arms' = n
        <4>1. info4 = <<>> /\ info4' = <<>>  BY <1>1, <2>6 DEF TablesInv
        <4>2. Len(info4) = 0 /\ Len(info4') = 0  BY <4>1
        <4> QED  BY <1>6, <2>1, <2>2, <2>4, <4>1, <4>2
      <3>2. /\ Len(added) = Len(info2) + 1 /\ added[Len(info2) + 1] = bx
            /\ \A k \in 1..Len(info2) : added[k] = info2[k]
        BY <1>10, <2>5 DEF IsAdded
      <3>3. Len(info2) = 2 * m /\ Len(added) = 2 * m + 1 /\ Len(added) < 2 * EMax
        BY <1>4, <2>1, <2>3, <3>1, <3>2
      <3>4. /\ Len(info2') = Len(added) + 1 /\ info2'[Len(added) + 1] = jump
            /\ \A k \in 1..Len(added) : info2'[k] = added[k]
        BY <1>c, <2>6, <3>3 DEF IsAdded
      <3>5. info2'[2 * m + 1] = bx /\ info2'[2 * m + 2] = jump /\ Len(info2') = 2 * m + 2
        BY <2>1, <3>2, <3>3, <3>4
      <3>6. \A k \in 1..(2 * m) : info2'[k] = info2[k]
        BY <2>1, <3>2, <3>3, <3>4
      <3>7. ASSUME NEW k \in 1..n
            PROVE  hooks'[k].arm /\ info2'[2 * k - 1] = BxOf(k)' /\ info2'[2 * k] = JumpOf(k)'
        <4>1. CASE k = n
          <5>1. 2 * k - 1 = 2 * m + 1 /\ 2 * k = 2 * m + 2  BY <2>1, <4>1
          <5>2. BxOf(k)' = bx /\ JumpOf(k)' = jump /\ hooks'[k] = h  BY <1>6, <1>8, <4>1
          <5>3. hooks'[k].arm  BY <1>1, <2>6, <5>2
          <5> QED  BY <3>5, <5>1, <5>2, <5>3
        <4>2. CASE k # n
          <5>1. /\ k \in 1..m /\ 2 * k - 1 \in 1..(2 * m) /\ 2 * k \in 1..(2 * m)
            BY <2>1, <4>2
          <5>2. hooks[k].arm /\ info2[2 * k - 1] = BxOf(k) /\ info2[2 * k] = JumpOf(k)
            BY <2>3, <3>1, <5>1
          <5>3. hooks'[k] = hooks[k] /\ BxOf(k)' = BxOf(k) /\ JumpOf(k)' = JumpOf(k)
            BY <1>6, <1>7, <5>1 DEF m
          <5> QED  BY <3>6, <5>1, <5>2, <5>3
        <4> QED  BY <4>1, <4>2
      <3>8. n \in Nat /\ (n + 1)..n = {}  BY <2>1
      <3> QED  BY <2>1, <3>1, <3>5, <3>7, <3>8
    <2>7. CASE step # "arm"
      <3>1. info2' = Added(info2, jump, 2 * EMax) /\ info4' = Added(info4, bx, EMax)
        BY <1>1, <2>7
      <3>2. Len(info4) < EMax  BY <1>4, <1>5, <2>1, <2>2, <2>3
      <3>3. /\ Len(info2') = Len(info2) + 1 /\ info2'[Len(info2) + 1] = jump
            /\ \A k \in 1..Len(info2) : info2'[k] = info2[k]
        BY <1>d, <2>5, <2>7 DEF IsAdded
      <3>4. /\ Len(info4') = Len(info4) + 1 /\ info4'[Len(info4) + 1] = bx
            /\ \A k \in 1..Len(info4) : info4'[k] = info4[k]
        BY <1>e, <2>7, <3>2 DEF IsAdded
      <3>5. Arms' = arms /\ Len(info4) = m - arms
        BY <1>5, <1>6, <2>1, <2>2, <2>4, <3>4
      <3>6. ASSUME NEW k \in 1..arms
            PROVE  hooks'[k].arm /\ info2'[2 * k - 1] = BxOf(k)' /\ info2'[2 * k] = JumpOf(k)'
        <4>1. /\ k \in 1..m /\ 2 * k - 1 \in 1..Len(info2) /\ 2 * k \in 1..Len(info2)
          BY <2>1, <2>2, <2>3
        <4>2. hooks'[k] = hooks[k] /\ BxOf(k)' = BxOf(k) /\ JumpOf(k)' = JumpOf(k)
          BY <1>6, <1>7, <4>1 DEF m
        <4> QED  BY <2>3, <3>3, <4>1, <4>2
      <3>7. ASSUME NEW k \in (arms + 1)..n
            PROVE  /\ ~hooks'[k].arm /\ info2'[arms + k] = JumpOf(k)'
                   /\ info4'[k - arms] = BxOf(k)'
        <4>1. CASE k = n
          <5>1. arms + k = Len(info2) + 1 /\ k - arms = Len(info4) + 1
            BY <2>1, <2>2, <2>3, <3>5, <4>1
          <5>2. BxOf(k)' = bx /\ JumpOf(k)' = jump /\ hooks'[k] = h  BY <1>6, <1>8, <4>1
          <5>3. ~hooks'[k].arm  BY <1>1, <2>7, <5>2
          <5> QED  BY <3>3, <3>4, <5>1, <5>2, <5>3
        <4>2. CASE k # n
          <5>1. /\ k \in 1..m /\ k \in (arms + 1)..m /\ arms + k \in 1..Len(info2)
                /\ k - arms \in 1..Len(info4)
            BY <2>1, <2>2, <2>3, <3>5, <4>2
          <5>2. hooks'[k] = hooks[k] /\ BxOf(k)' = BxOf(k) /\ JumpOf(k)' = JumpOf(k)
            BY <1>6, <1>7, <5>1 DEF m
          <5> QED  BY <2>3, <3>3, <3>4, <5>1, <5>2
        <4> QED  BY <4>1, <4>2
      <3>8. Len(info2') = arms + n  BY <2>1, <2>2, <2>3, <3>3
      <3> QED  BY <2>2, <2>3, <3>5, <3>6, <3>7, <3>8
    <2> QED  BY <2>6, <2>7
  <1> QED  BY <1>6, <1>11, <1>12, <1>13, <1>14, <1>15 DEF TablesInv

\* The ROM and its place are chosen once, and with them the place of the
\* appended code and what the literals are worth.
LEMMA RomStays ==
    ASSUME [PatchNext]_patchVars
    PROVE  game' = game /\ place' = place
  <1>1. CASE LoadRom \/ ScanMark \/ ScanDone \/ WriteNext
    BY <1>1 DEF LoadRom, ScanMark, ScanDone, WriteNext
  <1>2. CASE Save \/ SaveMark \/ SaveDone \/ Abort
    BY <1>2 DEF Save, SaveMark, SaveDone, Abort
  <1>3. CASE Cracks \/ PatchSleep
    BY <1>3 DEF Cracks, PatchSleep
  <1>4. CASE ArmDone \/ CommonSleepPatch \/ CloseWriter
    BY <1>4 DEF ArmDone, CommonSleepPatch, CloseWriter
  <1>5. ASSUME NEW rd \in Registers, NEW gap \in Gaps, NEW lit \in DOMAIN Literals, Ldr(rd, lit, gap)
        PROVE  game' = game /\ place' = place
    BY <1>5 DEF Ldr
  <1>6. ASSUME NEW rd \in Registers, NEW gap \in Gaps, NEW rn \in Registers, Str(rd, rn, gap)
        PROVE  game' = game /\ place' = place
    BY <1>6 DEF Str
  <1>7. CASE UNCHANGED patchVars
    BY <1>7 DEF patchVars
  <1> QED  BY <1>1, <1>2, <1>3, <1>4, <1>5, <1>6, <1>7 DEF PatchNext

LEMMA TrimStays ==
    ASSUME [PatchNext]_patchVars
    PROVE  /\ SetTrimSize' = SetTrimSize
           /\ \A lit : Installing(lit)' <=> Installing(lit)
           /\ \A h : Replaceable(h)' <=> Replaceable(h)
           /\ \A k : Loc(k)' = Loc(k)
  <1>1. game' = game  BY RomStays
  <1>2. SetTrimSize' = SetTrimSize  BY <1>1 DEF SetTrimSize
  <1>3. \A lit : Installing(lit)' <=> Installing(lit)  BY <1>1 DEF Installing, Readable
  <1>4. \A h : Replaceable(h)' <=> Replaceable(h)
    BY <1>2, <1>3 DEF Replaceable
  <1>5. \A k : Loc(k)' = Loc(k)  BY <1>2 DEF Loc
  <1> QED  BY <1>2, <1>3, <1>4, <1>5

\* The steps that are not of the search leave what it has found alone.
LEMMA SearchStays ==
    ASSUME \/ LoadRom \/ ScanMark \/ ScanDone \/ WriteNext \/ Save \/ SaveMark \/ SaveDone
           \/ Abort \/ Cracks \/ PatchSleep \/ CommonSleepPatch \/ CloseWriter
           \/ UNCHANGED patchVars
    PROVE  /\ regs' = regs /\ hooks' = hooks /\ info2' = info2 /\ info3' = info3 /\ info4' = info4
           /\ step' \notin {"arm", "thumb", "close", "done"} =>
                 step \notin {"arm", "thumb", "close", "done"}
           /\ step' \in {"arm", "thumb"} => PatchSleep \/ step' = step
           /\ step' = "arm" => PatchSleep \/ step = "arm"
  BY DEF patchVars, searchVars, LoadRom, ScanMark, ScanDone, WriteNext, Save, SaveMark, SaveDone,
         Abort, Cracks, PatchSleep, CommonSleepPatch, CloseWriter

LEMMA SearchStep ==
    ASSUME PatchTypeOK, SearchInv, [PatchNext]_patchVars
    PROVE  SearchInv'
  <1>1. /\ game' = game /\ place' = place /\ SetTrimSize' = SetTrimSize
        /\ \A lit : Installing(lit)' <=> Installing(lit)
        /\ \A h : Replaceable(h)' <=> Replaceable(h)
    BY RomStays, TrimStays
  <1>2. ASSUME \/ LoadRom \/ ScanMark \/ ScanDone \/ WriteNext \/ Save \/ SaveMark \/ SaveDone
               \/ Abort \/ Cracks \/ PatchSleep \/ CommonSleepPatch \/ CloseWriter
               \/ UNCHANGED patchVars
        PROVE  SearchInv'
    <2>1. /\ regs' = regs /\ hooks' = hooks /\ info2' = info2 /\ info3' = info3 /\ info4' = info4
          /\ step' \notin {"arm", "thumb", "close", "done"} =>
                step \notin {"arm", "thumb", "close", "done"}
          /\ step' \in {"arm", "thumb"} => PatchSleep \/ step' = step
      BY <1>2, SearchStays
    <2>2. step' \in {"arm", "thumb"} => SetTrimSize + PatchLength <= MaxSize[place]
      BY <2>1 DEF SearchInv, Searching, PatchSleep
    <2> QED  BY <1>1, <2>1, <2>2 DEF SearchInv, Searching
  <1>3. ASSUME NEW rd \in Registers, NEW gap \in Gaps, NEW lit \in DOMAIN Literals, Ldr(rd, lit, gap)
        PROVE  SearchInv'
    <2>1. /\ step' = step /\ hooks' = hooks /\ info2' = info2 /\ info3' = info3 /\ info4' = info4
          /\ Readable(lit)
          /\ regs' = [regs EXCEPT !.data[rd] = Literals[lit], !.addr[rd] = lit, !.last[rd] = at']
      BY <1>3 DEF Ldr
    <2>2. ASSUME NEW r \in Registers, regs'.data[r] = "intr"  PROVE Installing(regs'.addr[r])
      <3>1. regs \in RegTypes  BY DEF PatchTypeOK
      <3>2. CASE r = rd
        <4>1. regs'.data[r] = Literals[lit] /\ regs'.addr[r] = lit  BY <2>1, <3>1, <3>2 DEF RegTypes
        <4> QED  BY <2>1, <2>2, <4>1 DEF Installing
      <3>3. CASE r # rd
        <4>1. regs'.data[r] = regs.data[r] /\ regs'.addr[r] = regs.addr[r]
          BY <2>1, <3>1, <3>3 DEF RegTypes
        <4> QED  BY <2>2, <4>1 DEF SearchInv
      <3> QED  BY <3>2, <3>3
    <2> QED  BY <1>1, <2>1, <2>2 DEF SearchInv, Searching
  <1>4. ASSUME NEW rd \in Registers, NEW rn \in Registers, NEW gap \in Gaps, Str(rd, rn, gap)
        PROVE  SearchInv'
    <2> DEFINE h == StoreOf(rn, gap)
    <2>1. h \in HookTypes /\ hooks' = Append(hooks, h) /\ Replaceable(h) /\ Searching
      BY <1>4, StrIs
    <2>2. step' = step  BY <1>4 DEF Str
    <2>3. regs' = regs \/ regs' = [regs EXCEPT !.data[rn] = "other"]  BY <1>4 DEF Str
    <2> HIDE DEF h
    <2>4. ASSUME NEW r \in Registers, regs'.data[r] = "intr"  PROVE Installing(regs'.addr[r])
      <3>1. regs \in RegTypes  BY DEF PatchTypeOK
      <3>2. regs'.data[r] = regs.data[r] /\ regs'.addr[r] = regs.addr[r]
        BY <2>3, <2>4, <3>1 DEF RegTypes
      <3> QED  BY <2>4, <3>2 DEF SearchInv
    <2>5. ASSUME NEW k \in DOMAIN hooks'  PROVE Replaceable(hooks'[k])
      <3>1. hooks \in Seq(HookTypes)  BY DEF PatchTypeOK
      <3>2. hooks'[k] = h \/ (k \in DOMAIN hooks /\ hooks'[k] = hooks[k])  BY <2>1, <3>1
      <3> QED  BY <2>1, <3>2 DEF SearchInv
    <2> QED  BY <1>1, <2>1, <2>2, <2>4, <2>5 DEF SearchInv, Searching
  <1>5. CASE ArmDone
    <2>1. \A r \in Registers : regs'.data[r] # "intr"  BY <1>5 DEF ArmDone, NoRegs
    <2>2. /\ step' = "thumb" /\ step = "arm" /\ hooks' = hooks /\ info2' = info2
          /\ info3' = info3 /\ info4' = info4
      BY <1>5 DEF ArmDone
    <2> QED  BY <1>1, <2>1, <2>2 DEF SearchInv, Searching
  <1> QED  BY <1>2, <1>3, <1>4, <1>5 DEF PatchNext

LEMMA TablesStep ==
    ASSUME PatchTypeOK, SearchInv, TablesInv, [PatchNext]_patchVars
    PROVE  TablesInv'
  <1>1. /\ SetTrimSize' = SetTrimSize /\ \A k : Loc(k)' = Loc(k)
    BY TrimStays
  <1>2. ASSUME hooks' = hooks, info2' = info2, info3' = info3, info4' = info4,
               step' = "arm" => step = "arm" \/ PatchSleep
        PROVE  TablesInv'
    <2>1. PatchSleep => info4 = <<>>  BY DEF PatchSleep, SearchInv
    <2>2. Arms' = Arms  BY <1>2 DEF Arms
    <2>3. \A k : BxOf(k)' = BxOf(k) /\ JumpOf(k)' = JumpOf(k) /\ ActivationOf(k)' = ActivationOf(k)
      BY <1>1, <1>2 DEF BxOf, JumpOf, ActivationOf
    <2> QED  BY <1>2, <2>1, <2>2, <2>3 DEF TablesInv
  <1>3. ASSUME \/ LoadRom \/ ScanMark \/ ScanDone \/ WriteNext \/ Save \/ SaveMark \/ SaveDone
               \/ Abort \/ Cracks \/ PatchSleep \/ CommonSleepPatch \/ CloseWriter
               \/ UNCHANGED patchVars
        PROVE  TablesInv'
    BY <1>2, <1>3, SearchStays
  <1>4. ASSUME NEW rd \in Registers, NEW gap \in Gaps, NEW lit \in DOMAIN Literals, Ldr(rd, lit, gap)
        PROVE  TablesInv'
    BY <1>2, <1>4 DEF Ldr
  <1>5. CASE ArmDone
    BY <1>2, <1>5 DEF ArmDone
  <1>6. ASSUME NEW rd \in Registers, NEW rn \in Registers, NEW gap \in Gaps, Str(rd, rn, gap)
        PROVE  TablesInv'
    BY <1>6, StrTables
  <1> QED  BY <1>3, <1>4, <1>5, <1>6 DEF PatchNext

\* The activations lie one behind the other, in the room that was asked for.
LEMMA ActivationAt ==
    ASSUME PatchTypeOK, TablesInv, NEW j \in 1..Len(info3)
    PROVE  /\ j \in 1..Len(hooks) /\ j <= EMax /\ hooks[j] \in HookTypes
           /\ info3[j].at = Loc(j) /\ info3[j].v = Val("activation", Back(hooks[j]))
           /\ Loc(j) \in Nat /\ Loc(j) >= SetTrimSize + SleepSize
           /\ Loc(j) + ActivationSize <= SetTrimSize + PatchLength
  <1>1. Len(info3) \in Nat /\ Len(hooks) \in Nat /\ info3 \in Seq(Infos) /\ hooks \in Seq(HookTypes)
    BY DEF PatchTypeOK
  <1>2. EMax \in Nat /\ EMax <= 32  BY EMaxNat
  <1>3. Len(info3) = IF Len(hooks) < EMax THEN Len(hooks) ELSE EMax  BY DEF TablesInv
  <1>4. j \in 1..Len(hooks) /\ j <= EMax /\ j \in 1..32  BY <1>1, <1>2, <1>3
  <1>5. info3[j] = ActivationOf(j)  BY <1>1 DEF TablesInv
  <1>6. info3[j].at = Loc(j) /\ info3[j].v = Val("activation", Back(hooks[j]))
    BY <1>5 DEF ActivationOf, ActivationFor
  <1>7. SetTrimSize \in Nat  BY TrimBehind
  <1>8. /\ Loc(j) \in Nat /\ Loc(j) >= SetTrimSize + SleepSize
        /\ Loc(j) + ActivationSize <= SetTrimSize + PatchLength
    BY <1>4, <1>7 DEF Loc, SleepSize, ActivationSize, PatchLength
  <1> QED  BY <1>1, <1>4, <1>6, <1>8

\* What AppendedBehindData says of one write.
Behaves(w) ==
    /\ w.v.kind \in {"sleep", "activation"} =>
          w.at > game.last /\ w.at + w.len <= MaxSize[place]
    /\ w.v.kind # "sleep" => Fits(w.at, w.len)

LEMMA BehaveAll == AppendedBehindData <=> \A k \in DOMAIN todo : Behaves(todo[k])
  BY DEF AppendedBehindData, Behaves

LEMMA AppendBehaves ==
    ASSUME PatchTypeOK, SearchInv, TablesInv, Searching
    PROVE  \A k \in DOMAIN AppendPuts : Behaves(AppendPuts[k])
  <1> DEFINE m == Len(info2) + Len(info4)
  <1>1. /\ DOMAIN AppendPuts = 1..(m + 1 + Len(info3))
        /\ \A k \in 1..Len(info2) :
              /\ AppendPuts[k].at = info2[k].at /\ AppendPuts[k].len = 4
              /\ AppendPuts[k].v = info2[k].v
        /\ \A k \in 1..Len(info4) :
              /\ AppendPuts[Len(info2) + k].at = info4[k].at
              /\ AppendPuts[Len(info2) + k].len = 2
              /\ AppendPuts[Len(info2) + k].v = info4[k].v
        /\ AppendPuts[m + 1].at = SetTrimSize /\ AppendPuts[m + 1].len = SleepSize
        /\ AppendPuts[m + 1].v = Val("sleep", 0)
        /\ \A k \in 1..Len(info3) :
              /\ AppendPuts[m + 1 + k].at = info3[k].at
              /\ AppendPuts[m + 1 + k].len = ActivationSize
              /\ AppendPuts[m + 1 + k].v = info3[k].v
    BY AppendIs
  <1>2. /\ Len(info2) \in Nat /\ Len(info3) \in Nat /\ Len(info4) \in Nat
        /\ info2 \in Seq(Infos) /\ info4 \in Seq(Infos)
    BY DEF PatchTypeOK
  <1>3. SetTrimSize \in Nat /\ game.last \in Nat /\ game.last < SetTrimSize  BY TrimBehind, RomIs
  <1>4. SetTrimSize + PatchLength <= MaxSize[place]  BY DEF SearchInv
  <1>5. MaxSize[place] \in Nat  BY DEF PatchTypeOK, MaxSize
  <1> HIDE DEF m
  <1>6. ASSUME NEW k \in DOMAIN AppendPuts  PROVE Behaves(AppendPuts[k])
    <2>1. CASE k \in 1..Len(info2)
      <3>1. AppendPuts[k].at = info2[k].at /\ AppendPuts[k].len = 4 /\ AppendPuts[k].v = info2[k].v
        BY <1>1, <2>1
      <3>0. info2[k] \in Infos  BY <1>2, <2>1
      <3>2. info2[k].at \in Nat  BY <3>0 DEF Infos
      <3>3. info2[k].v.kind \in {"bx", "jump"}  BY <1>2, <2>1 DEF TablesInv
      <3>4. Fits(info2[k].at, 4)  BY <3>2, SmallFits
      <3> QED  BY <3>1, <3>3, <3>4 DEF Behaves
    <2>2. CASE k \in (Len(info2) + 1)..(Len(info2) + Len(info4))
      <3> DEFINE j == k - Len(info2)
      <3>1. j \in 1..Len(info4) /\ k = Len(info2) + j  BY <1>2, <2>2
      <3> HIDE DEF j
      <3>2. AppendPuts[k].at = info4[j].at /\ AppendPuts[k].len = 2 /\ AppendPuts[k].v = info4[j].v
        BY <1>1, <3>1
      <3>0. info4[j] \in Infos  BY <1>2, <3>1
      <3>3. info4[j].at \in Nat  BY <3>0 DEF Infos
      <3>4. info4[j].v.kind = "bx"  BY <1>2, <3>1 DEF TablesInv
      <3>5. Fits(info4[j].at, 2)  BY <3>3, SmallFits
      <3> QED  BY <3>2, <3>4, <3>5 DEF Behaves
    <2>3. CASE k = m + 1
      <3>1. AppendPuts[k].at = SetTrimSize /\ AppendPuts[k].len = SleepSize
            /\ AppendPuts[k].v.kind = "sleep"
        BY <1>1, <2>3 DEF Val
      <3>2. SetTrimSize + SleepSize <= MaxSize[place]
        BY <1>3, <1>4, <1>5 DEF SleepSize, PatchLength
      <3> QED  BY <1>3, <3>1, <3>2 DEF Behaves
    <2>4. CASE k \in (m + 2)..(m + 1 + Len(info3))
      <3> DEFINE j == k - m - 1
      <3>1. j \in 1..Len(info3) /\ k = m + 1 + j  BY <1>2, <2>4 DEF m
      <3> HIDE DEF j
      <3>2. /\ AppendPuts[k].at = info3[j].at /\ AppendPuts[k].len = ActivationSize
            /\ AppendPuts[k].v = info3[j].v
        BY <1>1, <3>1
      <3>3. /\ info3[j].at = Loc(j) /\ info3[j].v = Val("activation", Back(hooks[j]))
            /\ Loc(j) \in Nat /\ Loc(j) >= SetTrimSize + SleepSize
            /\ Loc(j) + ActivationSize <= SetTrimSize + PatchLength
        BY <3>1, ActivationAt
      <3>4. info3[j].v.kind = "activation"  BY <3>3 DEF Val
      <3>5. Loc(j) > game.last  BY <1>3, <3>3 DEF SleepSize
      <3>6. Loc(j) + ActivationSize <= MaxSize[place]
        BY <1>3, <1>4, <1>5, <3>3 DEF ActivationSize, PatchLength
      <3>7. Fits(Loc(j), ActivationSize)  BY <3>3, SmallFits DEF ActivationSize
      <3> QED  BY <3>2, <3>3, <3>4, <3>5, <3>6, <3>7 DEF Behaves
    <2> QED  BY <1>1, <1>2, <1>6, <2>1, <2>2, <2>3, <2>4 DEF m
  <1> QED  BY <1>6

LEMMA AppendedStep ==
    ASSUME PatchTypeOK, SearchInv, TablesInv, AppendedBehindData, [PatchNext]_patchVars
    PROVE  AppendedBehindData'
  <1>1. game' = game /\ place' = place  BY RomStays
  <1>2. ASSUME todo' = todo  PROVE AppendedBehindData'
    BY <1>1, <1>2 DEF AppendedBehindData
  <1>3. ASSUME PatchesOnly(todo')  PROVE AppendedBehindData'
    BY <1>3 DEF AppendedBehindData, PatchesOnly
  <1>4. CASE WriteNext
    <2>1. todo \in Seq(Puts) /\ todo # <<>> /\ todo' = Tail(todo)  BY <1>4 DEF WriteNext, PatchTypeOK
    <2>2. \A k \in DOMAIN todo' : k + 1 \in DOMAIN todo /\ todo'[k] = todo[k + 1]  BY <2>1
    <2> QED  BY <1>1, <2>2 DEF AppendedBehindData
  <1>5. CASE CommonSleepPatch
    <2>1. todo' = IF info2 \o info4 = <<>> THEN <<>> ELSE AppendPuts
      BY <1>5 DEF CommonSleepPatch, AppendPuts, PutsOf, SleepPut
    <2>2. Searching  BY <1>5 DEF CommonSleepPatch, Searching
    <2>3. CASE todo' = <<>>  BY <2>3 DEF AppendedBehindData
    <2>4. CASE todo' = AppendPuts
      <3>1. \A k \in DOMAIN AppendPuts : Behaves(AppendPuts[k])  BY <2>2, AppendBehaves
      <3> QED  BY <1>1, <2>4, <3>1 DEF AppendedBehindData, Behaves
    <2> QED  BY <2>1, <2>3, <2>4
  <1>6. CASE Save \/ SaveMark \/ Cracks \/ PatchSleep
    BY <1>3, <1>6, OnlyPatches
  <1>7. ASSUME \/ LoadRom \/ ScanMark \/ ScanDone \/ SaveDone \/ Abort \/ ArmDone \/ CloseWriter
               \/ UNCHANGED patchVars
        PROVE  AppendedBehindData'
    <2>1. todo' = todo
      BY <1>7 DEF LoadRom, ScanMark, ScanDone, SaveDone, Abort, ArmDone, CloseWriter, patchVars
    <2> QED  BY <1>2, <2>1
  <1>8. ASSUME NEW rd \in Registers, NEW gap \in Gaps, NEW lit \in DOMAIN Literals, Ldr(rd, lit, gap)
        PROVE  AppendedBehindData'
    BY <1>2, <1>8 DEF Ldr
  <1>9. ASSUME NEW rd \in Registers, NEW rn \in Registers, NEW gap \in Gaps, Str(rd, rn, gap)
        PROVE  AppendedBehindData'
    BY <1>2, <1>9 DEF Str
  <1> QED  BY <1>4, <1>5, <1>6, <1>7, <1>8, <1>9 DEF PatchNext

\* A write that is made leaves where a cell lands as it was.
LEMMA LandsNext ==
    ASSUME NEW t \in Seq(Puts), t # <<>>, NEW m, NEW c \in Cells, NEW S, NEW v,
           NEW m2, m2 = Patched(m, Head(t).at, Head(t).len, Head(t).v)
    PROVE  /\ LandsIn(t, m, c, S) => LandsIn(Tail(t), m2, c, S)
           /\ LandsLastIn(t, m, c, v) => LandsLastIn(Tail(t), m2, c, v)
  <1>1. /\ Len(t) \in Nat /\ Len(t) >= 1 /\ DOMAIN t = 1..Len(t) /\ Head(t) = t[1]
        /\ DOMAIN Tail(t) = 1..(Len(t) - 1)
        /\ \A k \in 1..(Len(t) - 1) : Tail(t)[k] = t[k + 1]
    OBVIOUS
  <1>2. m2[c] = IF Covers(t[1], c) THEN t[1].v ELSE m[c]  BY <1>1 DEF Patched, Covers
  <1>3. \A k \in DOMAIN Tail(t) : k + 1 \in DOMAIN t /\ Tail(t)[k] = t[k + 1]  BY <1>1
  <1>4. \A k \in DOMAIN t : k # 1 => k - 1 \in DOMAIN Tail(t) /\ Tail(t)[k - 1] = t[k]  BY <1>1
  <1>5. 1 \in DOMAIN t  BY <1>1
  <1> HIDE DEF Covers
  <1>6. ASSUME LandsIn(t, m, c, S)  PROVE LandsIn(Tail(t), m2, c, S)
    <2>1. \A k \in DOMAIN t : Covers(t[k], c) => t[k].v \in S  BY <1>6 DEF LandsIn
    <2>2. \A k \in DOMAIN Tail(t) : Covers(Tail(t)[k], c) => Tail(t)[k].v \in S  BY <1>3, <2>1
    <2>3. CASE Covers(t[1], c)
      BY <1>2, <1>5, <2>1, <2>2, <2>3 DEF LandsIn
    <2>4. CASE ~Covers(t[1], c)
      <3>1. m2[c] = m[c]  BY <1>2, <2>4
      <3>2. m[c] \in S \/ \E k \in DOMAIN t : Covers(t[k], c)  BY <1>6 DEF LandsIn
      <3>3. m2[c] \in S \/ \E k \in DOMAIN Tail(t) : Covers(Tail(t)[k], c)
        BY <1>4, <2>4, <3>1, <3>2
      <3> QED  BY <2>2, <3>3 DEF LandsIn
    <2> QED  BY <2>3, <2>4
  <1>7. ASSUME LandsLastIn(t, m, c, v)  PROVE LandsLastIn(Tail(t), m2, c, v)
    <2>1. CASE m[c] = v /\ \A k \in DOMAIN t : ~Covers(t[k], c)
      BY <1>2, <1>3, <1>5, <2>1 DEF LandsLastIn
    <2>2. ASSUME NEW k \in DOMAIN t, Covers(t[k], c), t[k].v = v,
                 \A j \in DOMAIN t : Covers(t[j], c) => j <= k
          PROVE  LandsLastIn(Tail(t), m2, c, v)
      <3>1. CASE k = 1
        <4>1. m2[c] = v  BY <1>2, <2>2, <3>1
        <4>2. \A j \in DOMAIN Tail(t) : ~Covers(Tail(t)[j], c)
          <5>1. ASSUME NEW j \in DOMAIN Tail(t), Covers(Tail(t)[j], c)  PROVE FALSE
            <6>1. j + 1 <= k  BY <1>3, <2>2, <5>1
            <6> QED  BY <1>1, <3>1, <6>1
          <5> QED  BY <5>1
        <4> QED  BY <4>1, <4>2 DEF LandsLastIn
      <3>2. CASE k # 1
        <4>1. k - 1 \in DOMAIN Tail(t) /\ Tail(t)[k - 1] = t[k]  BY <1>4, <3>2
        <4>2. ASSUME NEW j \in DOMAIN Tail(t), Covers(Tail(t)[j], c)  PROVE j <= k - 1
          <5>1. j + 1 <= k  BY <1>3, <2>2, <4>2
          <5> QED  BY <1>1, <5>1
        <4> QED  BY <2>2, <4>1, <4>2 DEF LandsLastIn
      <3> QED  BY <3>1, <3>2
    <2> QED  BY <1>7, <2>1, <2>2 DEF LandsLastIn
  <1> QED  BY <1>6, <1>7

\* What the writes of CommonSleepPatch are, by the store they are for.
Width(h) == IF h.arm THEN 4 ELSE 2
BxPut(w, i)         == w.at = hooks[i].store /\ w.len = Width(hooks[i]) /\ w.v = Val("bx", 0)
JumpPut(w, i)       == w.at = hooks[i].lit /\ w.len = 4 /\ w.v = Val("jump", Loc(i))
ActivationPut(w, i) ==
    w.at = Loc(i) /\ w.len = ActivationSize /\ w.v = Val("activation", Back(hooks[i]))
IsSleepPut(w)       == w.at = SetTrimSize /\ w.len = SleepSize

JumpPlace(i) == IF i <= Arms THEN 2 * i ELSE Arms + i

LEMMA TablesAre ==
    ASSUME PatchTypeOK, TablesInv, Len(hooks) <= EMax
    PROVE  /\ Len(hooks) \in Nat /\ Arms \in Nat /\ Arms <= Len(hooks)
           /\ Len(info2) = Arms + Len(hooks) /\ Len(info4) = Len(hooks) - Arms
           /\ Len(info3) = Len(hooks)
           /\ \A k \in 1..Arms :
                 hooks[k].arm /\ info2[2 * k - 1] = BxOf(k) /\ info2[2 * k] = JumpOf(k)
           /\ \A k \in (Arms + 1)..Len(hooks) :
                 ~hooks[k].arm /\ info2[Arms + k] = JumpOf(k) /\ info4[k - Arms] = BxOf(k)
           /\ \A k \in 1..Len(hooks) : info3[k] = ActivationOf(k)
  <1>1. Len(hooks) \in Nat /\ Len(info4) \in Nat /\ Len(info3) \in Nat /\ EMax \in Nat
        /\ DOMAIN info3 = 1..Len(info3)
    BY EMaxNat DEF PatchTypeOK
  <1>2. /\ Arms >= 0 /\ Len(info2) = Arms + Len(hooks)
        /\ \A k \in 1..Arms :
              hooks[k].arm /\ info2[2 * k - 1] = BxOf(k) /\ info2[2 * k] = JumpOf(k)
        /\ \A k \in (Arms + 1)..Len(hooks) :
              ~hooks[k].arm /\ info2[Arms + k] = JumpOf(k) /\ info4[k - Arms] = BxOf(k)
    BY DEF TablesInv
  <1>3. Len(info3) = IF Len(hooks) < EMax THEN Len(hooks) ELSE EMax  BY DEF TablesInv
  <1>4. \A k \in DOMAIN info3 : info3[k] = ActivationOf(k)  BY DEF TablesInv
  <1>5. Len(info3) = Len(hooks)  BY <1>1, <1>3
  <1>6. Arms = Len(hooks) - Len(info4)  BY DEF Arms
  <1>7. Arms \in Nat /\ Arms <= Len(hooks) /\ Len(info4) = Len(hooks) - Arms
    BY <1>1, <1>2, <1>6
  <1> HIDE DEF Arms
  <1> QED  BY <1>1, <1>2, <1>4, <1>5, <1>7

\* Each store has its three writes, and there are no others but the routine's.
LEMMA PutsThere ==
    ASSUME PatchTypeOK, TablesInv, Len(hooks) <= EMax, NEW i \in 1..Len(hooks)
    PROVE  /\ \E j \in DOMAIN AppendPuts : BxPut(AppendPuts[j], i)
           /\ JumpPlace(i) \in DOMAIN AppendPuts /\ JumpPut(AppendPuts[JumpPlace(i)], i)
           /\ \E j \in DOMAIN AppendPuts : ActivationPut(AppendPuts[j], i)
  <1> DEFINE a == Arms
             n == Len(hooks)
             m == Len(info2) + Len(info4)
  <1>1. /\ n \in Nat /\ a \in Nat /\ a <= n
        /\ Len(info2) = a + n /\ Len(info4) = n - a /\ Len(info3) = n
        /\ \A k \in 1..a : hooks[k].arm /\ info2[2 * k - 1] = BxOf(k) /\ info2[2 * k] = JumpOf(k)
        /\ \A k \in (a + 1)..n :
              ~hooks[k].arm /\ info2[a + k] = JumpOf(k) /\ info4[k - a] = BxOf(k)
        /\ \A k \in 1..n : info3[k] = ActivationOf(k)
    BY TablesAre
  <1>2. /\ DOMAIN AppendPuts = 1..(m + 1 + Len(info3))
        /\ \A k \in 1..Len(info2) :
              /\ AppendPuts[k].at = info2[k].at /\ AppendPuts[k].len = 4
              /\ AppendPuts[k].v = info2[k].v
        /\ \A k \in 1..Len(info4) :
              /\ AppendPuts[Len(info2) + k].at = info4[k].at
              /\ AppendPuts[Len(info2) + k].len = 2
              /\ AppendPuts[Len(info2) + k].v = info4[k].v
        /\ \A k \in 1..Len(info3) :
              /\ AppendPuts[m + 1 + k].at = info3[k].at
              /\ AppendPuts[m + 1 + k].len = ActivationSize
              /\ AppendPuts[m + 1 + k].v = info3[k].v
    BY AppendIs
  <1>3. m = 2 * n  BY <1>1
  <1>4. JumpPlace(i) = IF i <= a THEN 2 * i ELSE a + i  BY DEF JumpPlace
  <1>a. /\ n \in Nat /\ a \in Nat /\ a <= n
        /\ Len(info2) = a + n /\ Len(info4) = n - a /\ Len(info3) = n
    BY <1>1
  <1> HIDE DEF a, m
  <1>5. i \in 1..n /\ i \in Nat  BY <1>1
  <1> HIDE DEF n
  <1>6. /\ BxOf(i).at = hooks[i].store /\ BxOf(i).v = Val("bx", 0)
        /\ JumpOf(i).at = hooks[i].lit /\ JumpOf(i).v = Val("jump", Loc(i))
        /\ ActivationOf(i).at = Loc(i) /\ ActivationOf(i).v = Val("activation", Back(hooks[i]))
    BY DEF BxOf, BxFor, JumpOf, JumpFor, ActivationOf, ActivationFor
  <1>9. \E j \in DOMAIN AppendPuts : ActivationPut(AppendPuts[j], i)
    <2> DEFINE j == m + 1 + i
    <2>1. i \in 1..Len(info3) /\ j \in DOMAIN AppendPuts  BY <1>2, <1>3, <1>5, <1>a
    <2>2. info3[i] = ActivationOf(i)  BY <1>1, <1>5
    <2>3. AppendPuts[j].at = info3[i].at /\ AppendPuts[j].len = ActivationSize /\ AppendPuts[j].v = info3[i].v
      BY <1>2, <2>1
    <2> HIDE DEF j
    <2>4. ActivationPut(AppendPuts[j], i)  BY <1>6, <2>2, <2>3 DEF ActivationPut
    <2> QED  BY <2>1, <2>4
  <1>7. CASE i <= a
    <2>1. /\ 2 * i - 1 \in 1..Len(info2) /\ 2 * i \in 1..Len(info2) /\ i \in 1..a
          /\ 2 * i - 1 \in DOMAIN AppendPuts /\ 2 * i \in DOMAIN AppendPuts
      BY <1>1, <1>2, <1>3, <1>5, <1>7
    <2>2. hooks[i].arm /\ info2[2 * i - 1] = BxOf(i) /\ info2[2 * i] = JumpOf(i)  BY <1>1, <2>1
    <2>3. BxPut(AppendPuts[2 * i - 1], i)  BY <1>2, <1>6, <2>1, <2>2 DEF BxPut, Width
    <2>4. JumpPut(AppendPuts[2 * i], i)  BY <1>2, <1>6, <2>1, <2>2 DEF JumpPut
    <2>5. JumpPlace(i) = 2 * i  BY <1>4, <1>7
    <2> QED  BY <1>9, <2>1, <2>3, <2>4, <2>5
  <1>8. CASE i > a
    <2>1. /\ a + i \in 1..Len(info2) /\ i - a \in 1..Len(info4) /\ i \in (a + 1)..n
          /\ a + i \in DOMAIN AppendPuts /\ Len(info2) + (i - a) \in DOMAIN AppendPuts
      BY <1>1, <1>2, <1>3, <1>5, <1>8
    <2>2. ~hooks[i].arm /\ info2[a + i] = JumpOf(i) /\ info4[i - a] = BxOf(i)  BY <1>1, <2>1
    <2>3. BxPut(AppendPuts[Len(info2) + (i - a)], i)  BY <1>2, <1>6, <2>1, <2>2 DEF BxPut, Width
    <2>4. JumpPut(AppendPuts[a + i], i)  BY <1>2, <1>6, <2>1, <2>2 DEF JumpPut
    <2>5. ~(i <= a)  BY <1>5, <1>8, <1>a
    <2>6. JumpPlace(i) = a + i  BY <1>4, <2>5
    <2> QED  BY <1>9, <2>1, <2>3, <2>4, <2>6
  <1> QED  BY <1>5, <1>7, <1>8, <1>a

LEMMA PutsAre ==
    ASSUME PatchTypeOK, TablesInv, Len(hooks) <= EMax, NEW j \in DOMAIN AppendPuts
    PROVE  \/ \E i \in 1..Len(hooks) : BxPut(AppendPuts[j], i)
           \/ \E i \in 1..Len(hooks) : JumpPut(AppendPuts[j], i) /\ j = JumpPlace(i)
           \/ IsSleepPut(AppendPuts[j])
           \/ \E i \in 1..Len(hooks) : ActivationPut(AppendPuts[j], i)
  <1> DEFINE a == Arms
             n == Len(hooks)
             m == Len(info2) + Len(info4)
  <1>1. /\ n \in Nat /\ a \in Nat /\ a <= n
        /\ Len(info2) = a + n /\ Len(info4) = n - a /\ Len(info3) = n
        /\ \A k \in 1..a : hooks[k].arm /\ info2[2 * k - 1] = BxOf(k) /\ info2[2 * k] = JumpOf(k)
        /\ \A k \in (a + 1)..n :
              ~hooks[k].arm /\ info2[a + k] = JumpOf(k) /\ info4[k - a] = BxOf(k)
        /\ \A k \in 1..n : info3[k] = ActivationOf(k)
    BY TablesAre
  <1>2. /\ DOMAIN AppendPuts = 1..(m + 1 + Len(info3))
        /\ \A k \in 1..Len(info2) :
              /\ AppendPuts[k].at = info2[k].at /\ AppendPuts[k].len = 4
              /\ AppendPuts[k].v = info2[k].v
        /\ \A k \in 1..Len(info4) :
              /\ AppendPuts[Len(info2) + k].at = info4[k].at
              /\ AppendPuts[Len(info2) + k].len = 2
              /\ AppendPuts[Len(info2) + k].v = info4[k].v
        /\ AppendPuts[m + 1].at = SetTrimSize /\ AppendPuts[m + 1].len = SleepSize
        /\ \A k \in 1..Len(info3) :
              /\ AppendPuts[m + 1 + k].at = info3[k].at
              /\ AppendPuts[m + 1 + k].len = ActivationSize
              /\ AppendPuts[m + 1 + k].v = info3[k].v
    BY AppendIs
  <1>3. m = 2 * n  BY <1>1
  <1>4. \A i : JumpPlace(i) = IF i <= a THEN 2 * i ELSE a + i  BY DEF JumpPlace
  <1>5. \A i : /\ BxOf(i).at = hooks[i].store /\ BxOf(i).v = Val("bx", 0)
               /\ JumpOf(i).at = hooks[i].lit /\ JumpOf(i).v = Val("jump", Loc(i))
               /\ ActivationOf(i).at = Loc(i)
               /\ ActivationOf(i).v = Val("activation", Back(hooks[i]))
    BY DEF BxOf, BxFor, JumpOf, JumpFor, ActivationOf, ActivationFor
  <1>a. /\ n \in Nat /\ a \in Nat /\ a <= n
        /\ Len(info2) = a + n /\ Len(info4) = n - a /\ Len(info3) = n
    BY <1>1
  <1> HIDE DEF a, m, n
  <1>6. j \in 1..(m + 1 + n) /\ j \in Nat  BY <1>1, <1>2, <1>3
  <1>7. CASE j <= 2 * a
    <2>1. PICK i \in 1..a : j = 2 * i \/ j = 2 * i - 1
      <3>0. PICK e \in Nat : j = 2 * e \/ j = 2 * e + 1
        <4>1. j = 2 * (j \div 2) + (j % 2) /\ j % 2 \in {0, 1} /\ j \div 2 \in Nat  BY <1>6
        <4> QED  BY <4>1
      <3>1. j = 2 * (j \div 2) \/ j = 2 * ((j + 1) \div 2) - 1
        <4>1. CASE j = 2 * e
          <5>1. j \div 2 = e  BY <4>1
          <5> QED  BY <4>1, <5>1
        <4>2. CASE j = 2 * e + 1
          <5>1. (j + 1) \div 2 = e + 1  BY <4>2
          <5> QED  BY <4>2, <5>1
        <4> QED  BY <3>0, <4>1, <4>2
      <3>2. j = 2 * (j \div 2) => j \div 2 \in 1..a  BY <1>1, <1>6, <1>7
      <3>3. j = 2 * ((j + 1) \div 2) - 1 => (j + 1) \div 2 \in 1..a  BY <1>1, <1>6, <1>7
      <3> QED  BY <3>1, <3>2, <3>3
    <2>2. i \in 1..n /\ i \in Nat /\ j \in 1..Len(info2)  BY <1>1, <1>6, <1>7, <2>1
    <2>3. hooks[i].arm /\ info2[2 * i - 1] = BxOf(i) /\ info2[2 * i] = JumpOf(i)  BY <1>1
    <2>4. CASE j = 2 * i
      <3>1. JumpPut(AppendPuts[j], i)  BY <1>2, <1>5, <2>2, <2>3, <2>4 DEF JumpPut
      <3>2. j = JumpPlace(i)  BY <1>1, <1>4, <2>1, <2>4
      <3> QED  BY <2>2, <3>1, <3>2 DEF n
    <2>5. CASE j = 2 * i - 1
      <3>1. BxPut(AppendPuts[j], i)  BY <1>2, <1>5, <2>2, <2>3, <2>5 DEF BxPut, Width
      <3> QED  BY <2>2, <3>1 DEF n
    <2> QED  BY <2>1, <2>4, <2>5
  <1>8. CASE j > 2 * a /\ j <= a + n
    <2> DEFINE i == j - a
    <2>1. i \in (a + 1)..n /\ i \in 1..n /\ j = a + i /\ j \in 1..Len(info2) /\ ~(i <= a)
      BY <1>1, <1>6, <1>8
    <2> HIDE DEF i
    <2>2. info2[a + i] = JumpOf(i)  BY <1>1, <2>1
    <2>3. JumpPut(AppendPuts[j], i)  BY <1>2, <1>5, <2>1, <2>2 DEF JumpPut
    <2>4. j = JumpPlace(i)  BY <1>4, <2>1
    <2> QED  BY <2>1, <2>3, <2>4 DEF n
  <1>9. CASE j > a + n /\ j <= m
    <2> DEFINE i == j - n
    <2>0. i \in Int /\ j = n + i /\ i > a /\ i <= n  BY <1>3, <1>6, <1>9, <1>a
    <2> HIDE DEF i
    <2>1. /\ i \in (a + 1)..n /\ i \in 1..n /\ i - a \in 1..Len(info4) /\ j = Len(info2) + (i - a)
      BY <1>a, <2>0
    <2>2. ~hooks[i].arm /\ info4[i - a] = BxOf(i)  BY <1>1, <2>1
    <2>3. BxPut(AppendPuts[j], i)  BY <1>2, <1>5, <2>1, <2>2 DEF BxPut, Width
    <2> QED  BY <2>1, <2>3 DEF n
  <1>10. CASE j = m + 1
    BY <1>2, <1>10 DEF IsSleepPut
  <1>11. CASE j > m + 1
    <2> DEFINE i == j - m - 1
    <2>1. i \in 1..n /\ i \in 1..Len(info3) /\ j = m + 1 + i  BY <1>3, <1>6, <1>11, <1>a
    <2> HIDE DEF i
    <2>2. info3[i] = ActivationOf(i)  BY <1>1, <2>1
    <2>3. ActivationPut(AppendPuts[j], i)  BY <1>2, <1>5, <2>1, <2>2 DEF ActivationPut
    <2> QED  BY <2>1, <2>3 DEF n
  <1>b. j <= 2 * a \/ (j > 2 * a /\ j <= a + n) \/ (j > a + n /\ j <= m) \/ j = m + 1 \/ j > m + 1
    BY <1>3, <1>6, <1>a
  <1> QED  BY <1>7, <1>8, <1>9, <1>10, <1>11, <1>b

LEMMA HookIs ==
    ASSUME PatchTypeOK, SearchInv, NEW k \in 1..Len(hooks)
    PROVE  /\ hooks[k].store \in Nat /\ hooks[k].store % 2 = 0
           /\ hooks[k].arm => hooks[k].store % 4 = 0
           /\ Width(hooks[k]) = IF hooks[k].arm THEN 4 ELSE 2
           /\ hooks[k].store + Width(hooks[k]) <= SetTrimSize
           /\ hooks[k].lit \in Nat /\ hooks[k].lit % 4 = 0 /\ hooks[k].lit + 4 <= SetTrimSize
           /\ Installing(hooks[k].lit) /\ ~NoStore(hooks[k].store)
           /\ Loc(k) \in Nat /\ SetTrimSize \in Nat
           /\ Loc(k) = SetTrimSize + 428 + 36 * (k - 1) /\ Loc(k) >= SetTrimSize + 428
  <1>1. hooks[k] \in HookTypes /\ k \in DOMAIN hooks /\ k \in Nat /\ k >= 1  BY DEF PatchTypeOK
  <1>2. hooks[k].store \in Nat /\ hooks[k].lit \in Nat /\ hooks[k].arm \in BOOLEAN
    BY <1>1 DEF HookTypes
  <1>3. Replaceable(hooks[k])  BY <1>1 DEF SearchInv
  <1>4. Installing(hooks[k].lit) /\ ~NoStore(hooks[k].store)  BY <1>3 DEF Replaceable
  <1>5. /\ hooks[k].arm => hooks[k].store % 4 = 0 /\ hooks[k].store + 4 <= SetTrimSize
        /\ ~hooks[k].arm => hooks[k].store % 2 = 0 /\ hooks[k].store + 2 <= SetTrimSize
    BY <1>3 DEF Replaceable
  <1>6. /\ hooks[k].arm => Width(hooks[k]) = 4
        /\ ~hooks[k].arm => Width(hooks[k]) = 2
    BY DEF Width
  <1>7. hooks[k].store % 4 = 0 => hooks[k].store % 2 = 0  BY <1>2
  <1>8. hooks[k].lit % 4 = 0  BY <1>4, SearchAssumption DEF Installing
  <1>9. hooks[k].lit + 4 <= SetTrimSize
    <2>1. /\ hooks[k].lit + 4 <= game.size /\ hooks[k].lit <= game.last
      BY <1>4 DEF Installing, Readable
    <2> QED  BY <1>2, <2>1, TrimBehind
  <1>10. SetTrimSize \in Nat  BY TrimBehind
  <1>11. /\ Loc(k) = SetTrimSize + 428 + 36 * (k - 1) /\ Loc(k) \in Nat
         /\ Loc(k) >= SetTrimSize + 428
    BY <1>1, <1>10 DEF Loc, SleepSize, ActivationSize
  <1> QED  BY <1>1, <1>2, <1>4, <1>5, <1>6, <1>7, <1>8, <1>9, <1>10, <1>11

\* Writes that are for different things do not overlap where a store or a
\* literal is, or an activation begins.
LEMMA PutsApart ==
    ASSUME PatchTypeOK, SearchInv, NEW k \in 1..Len(hooks), NEW i \in 1..Len(hooks), NEW w
    PROVE  /\ JumpPut(w, i) => ~Covers(w, hooks[k].store)
           /\ BxPut(w, i) => ~Covers(w, hooks[k].lit)
           /\ JumpPut(w, i) /\ Covers(w, hooks[k].lit) => hooks[i].lit = hooks[k].lit
           /\ ActivationPut(w, i) => ~Covers(w, hooks[k].store) /\ ~Covers(w, hooks[k].lit)
           /\ BxPut(w, i) => ~Covers(w, Loc(k))
           /\ JumpPut(w, i) => ~Covers(w, Loc(k))
           /\ ActivationPut(w, i) /\ Covers(w, Loc(k)) => i = k
  <1>1. /\ hooks[k].store \in Nat /\ hooks[k].lit \in Nat /\ Loc(k) \in Nat
        /\ hooks[k].lit % 4 = 0 /\ ~NoStore(hooks[k].store) /\ Installing(hooks[k].lit)
        /\ hooks[k].store + Width(hooks[k]) <= SetTrimSize /\ hooks[k].lit + 4 <= SetTrimSize
        /\ Width(hooks[k]) \in {2, 4} /\ SetTrimSize \in Nat
        /\ Loc(k) = SetTrimSize + 428 + 36 * (k - 1) /\ Loc(k) >= SetTrimSize + 428
    BY HookIs
  <1>2. /\ hooks[i].store \in Nat /\ hooks[i].lit \in Nat /\ Loc(i) \in Nat
        /\ hooks[i].lit % 4 = 0 /\ ~NoStore(hooks[i].store) /\ Installing(hooks[i].lit)
        /\ hooks[i].store + Width(hooks[i]) <= SetTrimSize /\ hooks[i].lit + 4 <= SetTrimSize
        /\ Width(hooks[i]) \in {2, 4} /\ SetTrimSize \in Nat
        /\ Loc(i) = SetTrimSize + 428 + 36 * (i - 1) /\ Loc(i) >= SetTrimSize + 428
    BY HookIs
  <1>3. /\ Width(hooks[i]) = 4 => hooks[i].store % 4 = 0
        /\ Width(hooks[i]) = 2 => hooks[i].store % 2 = 0
    BY HookIs
  <1>4. \A l, a \in Nat : Installing(l) /\ ~NoStore(a) => ~(l <= a /\ a < l + 4)
    BY DEF Installing, NoStore
  <1>5. k \in Int /\ i \in Int  OBVIOUS
  <1>6. JumpPut(w, i) => ~Covers(w, hooks[k].store)
    BY <1>1, <1>2, <1>4 DEF JumpPut, Covers
  <1>7. ASSUME BxPut(w, i), Covers(w, hooks[k].lit)  PROVE FALSE
    <2> DEFINE a == hooks[i].store
               l == hooks[k].lit
               n == Width(hooks[i])
    <2>1. a <= l /\ l < a + n  BY <1>7 DEF BxPut, Covers
    <2>2. a \in Nat /\ l \in Nat /\ n \in {2, 4} /\ l % 4 = 0  BY <1>1, <1>2
    <2>3. (n = 4 => a % 4 = 0) /\ (n = 2 => a % 2 = 0)  BY <1>3
    <2>4. ~(l <= a /\ a < l + 4)  BY <1>1, <1>2, <1>4
    <2> HIDE DEF a, l, n
    <2>5. CASE n = 4
      <3>1. a % 4 = 0 /\ a <= l /\ l < a + 4  BY <2>1, <2>3, <2>5
      <3>2. l = a  BY <2>2, <3>1
      <3> QED  BY <2>2, <2>4, <3>2
    <2>6. CASE n = 2
      <3>1. a % 2 = 0 /\ a <= l /\ l < a + 2  BY <2>1, <2>3, <2>6
      <3>2. l = a  BY <2>2, <3>1
      <3> QED  BY <2>2, <2>4, <3>2
    <2> QED  BY <2>2, <2>5, <2>6
  <1>8. ASSUME JumpPut(w, i), Covers(w, hooks[k].lit)  PROVE hooks[i].lit = hooks[k].lit
    <2> DEFINE a == hooks[i].lit
               l == hooks[k].lit
    <2>1. a <= l /\ l < a + 4  BY <1>8 DEF JumpPut, Covers
    <2>2. a \in Nat /\ l \in Nat /\ l % 4 = 0 /\ a % 4 = 0  BY <1>1, <1>2
    <2> HIDE DEF a, l
    <2>3. a = l  BY <2>1, <2>2
    <2> QED  BY <2>3 DEF a, l
  <1>9. ASSUME ActivationPut(w, i)
        PROVE  ~Covers(w, hooks[k].store) /\ ~Covers(w, hooks[k].lit)
    <2>1. w.at = Loc(i)  BY <1>9 DEF ActivationPut
    <2> DEFINE s == hooks[k].store
               l == hooks[k].lit
               n == Width(hooks[k])
               t == SetTrimSize
    <2>2. /\ s \in Nat /\ l \in Nat /\ n \in {2, 4} /\ t \in Nat /\ s + n <= t /\ l + 4 <= t
          /\ Loc(i) \in Nat /\ Loc(i) >= t + 428
      BY <1>1, <1>2
    <2> HIDE DEF s, l, n, t
    <2>3. s < Loc(i) /\ l < Loc(i)  BY <2>2
    <2> QED  BY <2>1, <2>2, <2>3 DEF s, l, Covers
  <1>10. BxPut(w, i) => ~Covers(w, Loc(k))
    <2> DEFINE s == hooks[i].store
               n == Width(hooks[i])
               t == SetTrimSize
    <2>0. /\ s \in Nat /\ n \in {2, 4} /\ t \in Nat /\ s + n <= t
          /\ Loc(k) \in Nat /\ Loc(k) >= t + 428
      BY <1>1, <1>2
    <2> HIDE DEF s, n, t
    <2>1. s + n <= Loc(k)  BY <2>0
    <2> QED  BY <2>0, <2>1 DEF s, n, BxPut, Covers
  <1>11. JumpPut(w, i) => ~Covers(w, Loc(k))
    <2>1. hooks[i].lit + 4 <= Loc(k)  BY <1>1, <1>2
    <2> QED  BY <1>1, <1>2, <2>1 DEF JumpPut, Covers
  <1>12. ASSUME ActivationPut(w, i), Covers(w, Loc(k))  PROVE i = k
    <2>1. Loc(i) <= Loc(k) /\ Loc(k) < Loc(i) + 36
      BY <1>12 DEF ActivationPut, Covers, ActivationSize
    <2> QED  BY <1>1, <1>2, <1>5, <2>1
  <1> QED  BY <1>6, <1>7, <1>8, <1>9, <1>10, <1>11, <1>12

\* The sleep routine lies between the game and the activations, and a write
\* covers what it is for.
LEMMA SleepPutApart ==
    ASSUME PatchTypeOK, SearchInv, NEW k \in 1..Len(hooks), NEW w
    PROVE  /\ IsSleepPut(w) => /\ ~Covers(w, hooks[k].store) /\ ~Covers(w, hooks[k].lit)
                               /\ ~Covers(w, Loc(k))
           /\ BxPut(w, k) => Covers(w, hooks[k].store)
           /\ JumpPut(w, k) => Covers(w, hooks[k].lit)
           /\ ActivationPut(w, k) => Covers(w, Loc(k))
  <1>1. /\ hooks[k].store \in Nat /\ hooks[k].lit \in Nat /\ Loc(k) \in Nat
        /\ hooks[k].store + Width(hooks[k]) <= SetTrimSize /\ hooks[k].lit + 4 <= SetTrimSize
        /\ Width(hooks[k]) \in {2, 4} /\ SetTrimSize \in Nat /\ Loc(k) >= SetTrimSize + 428
    BY HookIs
  <1>2. IsSleepPut(w) => /\ ~Covers(w, hooks[k].store) /\ ~Covers(w, hooks[k].lit)
                         /\ ~Covers(w, Loc(k))
    BY <1>1 DEF IsSleepPut, SleepSize, Covers
  <1>3. BxPut(w, k) => Covers(w, hooks[k].store)  BY <1>1 DEF BxPut, Covers
  <1>4. JumpPut(w, k) => Covers(w, hooks[k].lit)  BY <1>1 DEF JumpPut, Covers
  <1>5. ActivationPut(w, k) => Covers(w, Loc(k))  BY <1>1 DEF ActivationPut, ActivationSize, Covers
  <1> QED  BY <1>2, <1>3, <1>4, <1>5

\* Together the writes of CommonSleepPatch put each store's jump, literal and
\* activation where they belong.
LEMMA AppendLands ==
    ASSUME PatchTypeOK, SearchInv, TablesInv, Len(hooks) <= EMax, NEW k \in 1..Len(hooks)
    PROVE  HookLandsIn(AppendPuts, image, k)
  <1>1. PICK b \in DOMAIN AppendPuts : BxPut(AppendPuts[b], k)  BY PutsThere
  <1>2. JumpPlace(k) \in DOMAIN AppendPuts /\ JumpPut(AppendPuts[JumpPlace(k)], k)  BY PutsThere
  <1>3. PICK c \in DOMAIN AppendPuts : ActivationPut(AppendPuts[c], k)  BY PutsThere
  <1>4. LandsIn(AppendPuts, image, hooks[k].store, {Val("bx", 0)})
    <2>1. Covers(AppendPuts[b], hooks[k].store)  BY <1>1, SleepPutApart
    <2>2. ASSUME NEW j \in DOMAIN AppendPuts, Covers(AppendPuts[j], hooks[k].store)
          PROVE  AppendPuts[j].v = Val("bx", 0)
      <3>1. \E i \in 1..Len(hooks) : BxPut(AppendPuts[j], i)
        BY <2>2, PutsAre, PutsApart, SleepPutApart
      <3> QED  BY <3>1 DEF BxPut
    <2> QED  BY <2>1, <2>2 DEF LandsIn
  <1>5. LandsIn(AppendPuts, image, hooks[k].lit, JumpsBy(k))
    <2>1. Covers(AppendPuts[JumpPlace(k)], hooks[k].lit)  BY <1>2, SleepPutApart
    <2>2. ASSUME NEW j \in DOMAIN AppendPuts, Covers(AppendPuts[j], hooks[k].lit)
          PROVE  AppendPuts[j].v \in JumpsBy(k)
      <3>1. PICK i \in 1..Len(hooks) : JumpPut(AppendPuts[j], i)
        BY <2>2, PutsAre, PutsApart, SleepPutApart
      <3>2. hooks[i].lit = hooks[k].lit  BY <2>2, <3>1, PutsApart
      <3>3. i \in DOMAIN hooks  BY DEF PatchTypeOK
      <3> QED  BY <3>1, <3>2, <3>3 DEF JumpPut, JumpsBy
    <2> QED  BY <1>2, <2>1, <2>2 DEF LandsIn
  <1>6. ASSUME IsLast(k)
        PROVE  LandsLastIn(AppendPuts, image, hooks[k].lit, Val("jump", Loc(k)))
    <2>1. Covers(AppendPuts[JumpPlace(k)], hooks[k].lit)  BY <1>2, SleepPutApart
    <2>2. ASSUME NEW j \in DOMAIN AppendPuts, Covers(AppendPuts[j], hooks[k].lit)
          PROVE  j <= JumpPlace(k)
      <3>1. PICK i \in 1..Len(hooks) : JumpPut(AppendPuts[j], i) /\ j = JumpPlace(i)
        BY <2>2, PutsAre, PutsApart, SleepPutApart
      <3>2. hooks[i].lit = hooks[k].lit  BY <2>2, <3>1, PutsApart
      <3>3. i \in DOMAIN hooks /\ i \in Nat /\ k \in Nat  BY DEF PatchTypeOK
      <3>4. i <= k  BY <1>6, <3>2, <3>3 DEF IsLast
      <3>5. Arms \in Nat  BY TablesAre
      <3>6. JumpPlace(i) <= JumpPlace(k)  BY <3>3, <3>4, <3>5 DEF JumpPlace
      <3> QED  BY <3>1, <3>6
    <2> QED  BY <1>2, <2>1, <2>2 DEF LandsLastIn, JumpPut
  <1>7. LandsIn(AppendPuts, image, Loc(k), {Val("activation", Back(hooks[k]))})
    <2>1. Covers(AppendPuts[c], Loc(k))  BY <1>3, SleepPutApart
    <2>2. ASSUME NEW j \in DOMAIN AppendPuts, Covers(AppendPuts[j], Loc(k))
          PROVE  AppendPuts[j].v = Val("activation", Back(hooks[k]))
      <3>1. PICK i \in 1..Len(hooks) : ActivationPut(AppendPuts[j], i)
        BY <2>2, PutsAre, PutsApart, SleepPutApart
      <3>2. i = k  BY <2>2, <3>1, PutsApart
      <3> QED  BY <3>1, <3>2 DEF ActivationPut
    <2> QED  BY <2>1, <2>2 DEF LandsIn
  <1> QED  BY <1>4, <1>5, <1>6, <1>7 DEF HookLandsIn

\* The places of activations and jumps do not move.
LEMMA HookStays ==
    ASSUME hooks' = hooks, game' = game, NEW k
    PROVE  /\ Loc(k)' = Loc(k) /\ JumpsBy(k)' = JumpsBy(k) /\ (IsLast(k)' <=> IsLast(k))
  <1>1. SetTrimSize' = SetTrimSize  BY DEF SetTrimSize
  <1>2. \A j : Loc(j)' = Loc(j)  BY <1>1 DEF Loc
  <1>3. JumpsBy(k)' = JumpsBy(k)  BY <1>2 DEF JumpsBy
  <1>4. IsLast(k)' <=> IsLast(k)  BY DEF IsLast
  <1> QED  BY <1>2, <1>3, <1>4

LEMMA LandStep ==
    ASSUME PatchTypeOK, SearchInv, TablesInv, ArriveInv, LandInv, [PatchNext]_patchVars
    PROVE  LandInv'
  <1>1. game' = game  BY RomStays
  <1>2. DOMAIN hooks = 1..Len(hooks)  BY DEF PatchTypeOK
  <1>3. CASE WriteNext
    <2> DEFINE w == Head(todo)
    <2>1. /\ todo \in Seq(Puts) /\ todo # <<>> /\ todo' = Tail(todo) /\ step' = step /\ hooks' = hooks
      BY <1>3 DEF WriteNext, searchVars, PatchTypeOK
    <2>2. image' = Patched(image, w.at, w.len, w.v)  BY <1>3 DEF WriteNext, Write
    <2>3. ASSUME NEW k \in DOMAIN hooks, HookLands(k)  PROVE HookLands(k)'
      <3>1. Loc(k)' = Loc(k) /\ JumpsBy(k)' = JumpsBy(k) /\ (IsLast(k)' <=> IsLast(k))
        BY <1>1, <2>1, HookStays
      <3>2. \A S : \A c \in Cells :
               /\ LandsIn(todo, image, c, S) => LandsIn(todo', image', c, S)
               /\ LandsLastIn(todo, image, c, S) => LandsLastIn(todo', image', c, S)
        BY <2>1, <2>2, LandsNext
      <3> QED  BY <2>1, <2>3, <3>1, <3>2 DEF HookLands, HookLandsIn
    <2> QED  BY <2>1, <2>3 DEF LandInv
  <1>4. CASE CommonSleepPatch
    <2>1. /\ hooks' = hooks /\ image' = image /\ Searching
          /\ todo' = IF info2 \o info4 = <<>> THEN <<>> ELSE AppendPuts
      BY <1>4 DEF CommonSleepPatch, AppendPuts, PutsOf, SleepPut, searchVars, writerVars, Searching
    <2>2. ASSUME Len(hooks) <= EMax, NEW k \in 1..Len(hooks)  PROVE HookLands(k)'
      <3>1. info2 \o info4 # <<>>
        <4>1. Len(info2) >= 1
          BY <2>2, TablesAre
        <4> QED  BY <4>1 DEF PatchTypeOK
      <3>2. HookLandsIn(AppendPuts, image, k)  BY <2>2, AppendLands
      <3>3. Loc(k)' = Loc(k) /\ JumpsBy(k)' = JumpsBy(k) /\ (IsLast(k)' <=> IsLast(k))
        BY <1>1, <2>1, HookStays
      <3> QED  BY <2>1, <3>1, <3>2, <3>3 DEF HookLands, HookLandsIn
    <2> QED  BY <1>2, <2>1, <2>2 DEF LandInv
  \* The other steps change nothing, or come before anything was found.
  <1>5. ASSUME hooks = <<>>, hooks' = hooks  PROVE LandInv'
    BY <1>5 DEF LandInv
  <1>6. ASSUME hooks' = hooks, todo' = todo, image' = image, step \in {"close", "done"}
        PROVE  LandInv'
    <2>1. ASSUME NEW k \in DOMAIN hooks, HookLands(k)  PROVE HookLands(k)'
      <3>1. Loc(k)' = Loc(k) /\ JumpsBy(k)' = JumpsBy(k) /\ (IsLast(k)' <=> IsLast(k))
        BY <1>1, <1>6, HookStays
      <3> QED  BY <1>6, <2>1, <3>1 DEF HookLands, HookLandsIn
    <2> QED  BY <1>6, <2>1 DEF LandInv
  <1>7. ASSUME step' \notin {"close", "done"}  PROVE LandInv'
    BY <1>7 DEF LandInv
  <1>8. CASE PatchSleep
    BY <1>5, <1>8 DEF PatchSleep, SearchInv, searchVars
  <1>9. CASE Abort
    BY <1>5, <1>9 DEF Abort, SearchInv, searchVars
  <1>10. CASE CloseWriter
    <2>1. /\ hooks' = hooks /\ todo' = todo /\ step = "close"
      BY <1>10 DEF CloseWriter, searchVars
    <2>2. image' = image  BY <1>10 DEF CloseWriter, Close, writerVars
    <2> QED  BY <1>6, <2>1, <2>2
  <1>11. CASE LoadRom \/ ScanMark \/ ScanDone \/ Save \/ SaveMark \/ SaveDone \/ Cracks \/ ArmDone
    BY <1>7, <1>11 DEF LoadRom, ScanMark, ScanDone, Save, SaveMark, SaveDone, Cracks, ArmDone
  <1>12. ASSUME NEW rd \in Registers, NEW gap \in Gaps, NEW lit \in DOMAIN Literals, Ldr(rd, lit, gap)
         PROVE  LandInv'
    BY <1>7, <1>12 DEF Ldr
  <1>13. ASSUME NEW rd \in Registers, NEW rn \in Registers, NEW gap \in Gaps, Str(rd, rn, gap)
         PROVE  LandInv'
    BY <1>7, <1>13 DEF Str
  <1>14. CASE UNCHANGED patchVars
    BY <1>6, <1>7, <1>14 DEF patchVars
  <1> QED  BY <1>3, <1>4, <1>8, <1>9, <1>10, <1>11, <1>12, <1>13, <1>14 DEF PatchNext

\* The step of the writer, as far as it is about what arrives.
LEMMA ArriveStep ==
    ASSUME PatchTypeOK, ArriveInv, [PatchNext]_patchVars
    PROVE  ArriveInv'
  <1>1. game' = game /\ place' = place  BY RomStays
  <1>2. CASE LoadRom
    <2>1. /\ flash' = image' /\ iBuffer' = flash' /\ iCurPage' = NoPage /\ step' = "scan"
      BY <1>2 DEF LoadRom, Open
    <2>2. \A x \in Cells : flash'[x] = image'[x]  BY <2>1
    <2>3. WriterInv'  BY <2>1 DEF WriterInv, Overlay
    <2> QED  BY <2>1, <2>2, <2>3 DEF ArriveInv
  <1>3. CASE WriteNext
    <2> DEFINE w == Head(todo)
    <2>1. w \in Puts /\ step' = step /\ failed' = failed
      BY <1>3 DEF WriteNext, PatchTypeOK
    <2>2. step # "done" /\ (step' = "abort" => failed')
      BY <1>3, <2>1 DEF WriteNext, ArriveInv
    <2>3. CASE place = "psram"
      <3>1. /\ flash' = Patched(flash, w.at, w.len, w.v)
            /\ image' = Patched(image, w.at, w.len, w.v)
        BY <1>3, <2>3 DEF WriteNext
      <3>2. \A x \in Cells : flash[x] = image[x]  BY <2>3 DEF ArriveInv
      <3>3. \A x \in Cells : flash'[x] = image'[x]  BY <3>1, <3>2 DEF Patched
      <3> QED  BY <1>1, <2>1, <2>2, <2>3, <3>3 DEF ArriveInv
    <2>4. CASE place = "nor"
      <3>1. Write(w.at, w.len, w.v) /\ spilled' = (spilled \/ ~Fits(w.at, w.len))
        BY <1>3, <2>4 DEF WriteNext
      <3>2. w.at \in Nat /\ w.len \in Nat  BY <2>1 DEF Puts
      <3> HIDE DEF w
      <3>3. ASSUME ~spilled'  PROVE WriterInv'
        <4>1. ~spilled /\ Fits(w.at, w.len)  BY <3>1, <3>3
        <4>2. WriterInv  BY <2>2, <2>4, <4>1 DEF ArriveInv
        <4> QED  BY <3>1, <3>2, <4>1, <4>2, WriteKeeps
      <3> QED  BY <1>1, <2>1, <2>2, <2>4, <3>3 DEF ArriveInv
    <2> QED  BY <2>3, <2>4 DEF PatchTypeOK
  <1>4. CASE CloseWriter
    <2>1. /\ step = "close" /\ step' = "done" /\ todo' = <<>> /\ spilled' = spilled
      BY <1>4 DEF CloseWriter
    <2>2. CASE place = "psram"
      <3>1. flash' = flash /\ image' = image  BY <1>4, <2>2 DEF CloseWriter, writerVars
      <3>2. \A x \in Cells : flash'[x] = image'[x]  BY <2>2, <3>1 DEF ArriveInv
      <3> QED  BY <1>1, <2>1, <2>2, <3>2 DEF ArriveInv
    <2>3. CASE place = "nor"
      <3>1. Close  BY <1>4, <2>3 DEF CloseWriter
      <3>2. ~spilled => WriterInv  BY <2>1, <2>3 DEF ArriveInv
      <3>3. ~spilled => WrittenThrough'  BY <3>1, <3>2, CloseKeeps
      <3> QED  BY <1>1, <2>1, <2>3, <3>3 DEF ArriveInv
    <2> QED  BY <2>2, <2>3 DEF PatchTypeOK
  \* The other steps leave the writer alone.
  <1>5. ASSUME writerVars' = writerVars, spilled' = spilled, failed' = failed \/ step # "done",
               step = "done" => step' = "done", step' = "abort" => failed',
               step' = "done" => todo' = <<>>,
               step' = "done" => step = "done" \/ (step = "abort" /\ failed' = failed)
        PROVE  ArriveInv'
    <2>1. /\ flash' = flash /\ iBuffer' = iBuffer /\ iCurPage' = iCurPage /\ image' = image
      BY <1>5 DEF writerVars
    <2>2. WriterInv' <=> WriterInv  BY <2>1 DEF WriterInv, Overlay
    <2>3. WrittenThrough' <=> WrittenThrough  BY <2>1 DEF WrittenThrough
    <2> HIDE DEF WriterInv
    <2> QED  BY <1>1, <1>5, <2>1, <2>2, <2>3 DEF ArriveInv
  <1>6. ASSUME \/ ScanMark \/ ScanDone \/ SaveDone \/ Abort \/ Cracks \/ PatchSleep \/ ArmDone
               \/ CommonSleepPatch
        PROVE  ArriveInv'
    BY <1>5, <1>6 DEF ScanMark, ScanDone, SaveDone, Abort, Cracks, PatchSleep, ArmDone,
          CommonSleepPatch, ArriveInv
  <1>7. CASE Save
    BY <1>5, <1>7 DEF Save, ArriveInv
  <1>8. CASE SaveMark
    BY <1>5, <1>8 DEF SaveMark, ArriveInv
  <1>9. ASSUME NEW rd \in Registers, NEW gap \in Gaps, NEW lit \in DOMAIN Literals, Ldr(rd, lit, gap)
        PROVE  ArriveInv'
    BY <1>5, <1>9 DEF Ldr, ArriveInv
  <1>10. ASSUME NEW rd \in Registers, NEW rn \in Registers, NEW gap \in Gaps, Str(rd, rn, gap)
         PROVE  ArriveInv'
    BY <1>5, <1>10 DEF Str, ArriveInv
  <1>11. CASE UNCHANGED patchVars
    <2>1. writerVars' = writerVars  BY <1>11 DEF patchVars, writerVars
    <2> QED  BY <1>5, <1>11, <2>1 DEF patchVars, ArriveInv
  <1> QED  BY <1>2, <1>3, <1>4, <1>6, <1>7, <1>8, <1>9, <1>10, <1>11 DEF PatchNext

PatchInv == PatchTypeOK /\ SearchInv /\ TablesInv /\ AppendedBehindData /\ LandInv /\ ArriveInv

LEMMA PatchStart == PatchInit => PatchInv
  <1> SUFFICES ASSUME PatchInit  PROVE PatchInv
    OBVIOUS
  <1>1. PatchTypeOK
    <2>1. NoRegs \in RegTypes  BY DEF NoRegs, RegTypes, RegData
    <2>2. \A S : <<>> \in Seq(S)  OBVIOUS
    <2>3. /\ marks \in Seq(Found) /\ todo \in Seq(Puts) /\ hooks \in Seq(HookTypes)
          /\ info2 \in Seq(Infos) /\ info3 \in Seq(Infos) /\ info4 \in Seq(Infos)
      BY <2>2 DEF PatchInit
    <2>4. regs \in RegTypes /\ cur \in Nat \ {0} /\ at \in Nat /\ instrs \in Nat
      BY <2>1 DEF PatchInit
    <2>5. step \in Steps  BY DEF PatchInit, Steps
    <2> QED  BY <2>3, <2>4, <2>5 DEF PatchInit, PatchTypeOK
  <1>2. SearchInv
    <2>1. \A r \in Registers : regs.data[r] # "intr"  BY DEF PatchInit, NoRegs
    <2> QED  BY <2>1 DEF PatchInit, SearchInv, Searching
  <1>3. TablesInv
    <2>1. EMax \in Nat  BY EMaxNat
    <2>2. /\ hooks = <<>> /\ info2 = <<>> /\ info3 = <<>> /\ info4 = <<>> /\ step = "load"
      BY DEF PatchInit
    <2>3. Len(hooks) = 0 /\ Len(info2) = 0 /\ Len(info3) = 0 /\ Len(info4) = 0 /\ Arms = 0
      BY <2>2 DEF Arms
    <2> QED  BY <2>1, <2>2, <2>3 DEF TablesInv
  <1>4. AppendedBehindData  BY DEF PatchInit, AppendedBehindData
  <1>5. LandInv  BY DEF PatchInit, LandInv
  <1>6. ArriveInv
    <2>1. flash = image /\ iBuffer = flash /\ iCurPage = NoPage /\ step = "load"  BY DEF PatchInit
    <2>2. WriterInv  BY <2>1 DEF WriterInv, Overlay
    <2> QED  BY <2>1, <2>2 DEF ArriveInv
  <1> QED  BY <1>1, <1>2, <1>3, <1>4, <1>5, <1>6 DEF PatchInv

LEMMA PatchStep == PatchInv /\ [PatchNext]_patchVars => PatchInv'
  BY PatchTypeStep, SearchStep, TablesStep, AppendedStep, LandStep, ArriveStep DEF PatchInv

LEMMA JumpsHaveLanded ==
    ASSUME PatchInv
    PROVE  JumpsLand
  <1> SUFFICES ASSUME Finished, Len(hooks) <= EMax, NEW k \in DOMAIN hooks
               PROVE  /\ hooks[k].store \in Cells => image[hooks[k].store].kind = "bx"
                      /\ hooks[k].lit \in Cells =>
                            /\ image[hooks[k].lit].kind = "jump"
                            /\ image[hooks[k].lit].n \in Cells =>
                                  /\ image[image[hooks[k].lit].n].kind = "activation"
                                  /\ IsLast(k) => image[image[hooks[k].lit].n].n = Back(hooks[k])
    BY DEF JumpsLand, IsLast, Back
  <1>1. step = "done" /\ todo = <<>>  BY DEF Finished, PatchInv, ArriveInv
  <1>2. \A i \in DOMAIN hooks : HookLandsIn(<<>>, image, i)
    BY <1>1 DEF PatchInv, LandInv, HookLands
  <1>3. DOMAIN <<>> = {}  OBVIOUS
  <1>4. \A c, S : LandsIn(<<>>, image, c, S) => image[c] \in S  BY <1>3 DEF LandsIn
  <1>5. \A c, v : LandsLastIn(<<>>, image, c, v) => image[c] = v  BY <1>3 DEF LandsLastIn
  <1>6. hooks[k].store \in Cells => image[hooks[k].store].kind = "bx"
    <2>1. hooks[k].store \in Cells => LandsIn(<<>>, image, hooks[k].store, {Val("bx", 0)})
      BY <1>2 DEF HookLandsIn
    <2>2. hooks[k].store \in Cells => image[hooks[k].store] = Val("bx", 0)  BY <1>4, <2>1
    <2> QED  BY <2>2 DEF Val
  <1>7. ASSUME hooks[k].lit \in Cells
        PROVE  /\ image[hooks[k].lit].kind = "jump"
               /\ image[hooks[k].lit].n \in Cells =>
                     /\ image[image[hooks[k].lit].n].kind = "activation"
                     /\ IsLast(k) => image[image[hooks[k].lit].n].n = Back(hooks[k])
    <2>1. image[hooks[k].lit] \in JumpsBy(k)  BY <1>2, <1>4, <1>7 DEF HookLandsIn
    <2>2. PICK i \in DOMAIN hooks : image[hooks[k].lit] = Val("jump", Loc(i))  BY <2>1 DEF JumpsBy
    <2>3. image[hooks[k].lit].kind = "jump" /\ image[hooks[k].lit].n = Loc(i)  BY <2>2 DEF Val
    <2>4. Loc(i) \in Cells => image[Loc(i)] = Val("activation", Back(hooks[i]))
      BY <1>2, <1>4 DEF HookLandsIn
    <2>5. Loc(i) \in Cells => image[Loc(i)].kind = "activation"  BY <2>4 DEF Val
    <2>6. ASSUME IsLast(k), image[hooks[k].lit].n \in Cells
          PROVE  image[image[hooks[k].lit].n].n = Back(hooks[k])
      <3>1. image[hooks[k].lit] = Val("jump", Loc(k))
        BY <1>2, <1>5, <1>7, <2>6 DEF HookLandsIn
      <3>2. image[hooks[k].lit].n = Loc(k)  BY <3>1 DEF Val
      <3>3. Loc(k) \in Cells  BY <2>6, <3>2
      <3>4. image[Loc(k)] = Val("activation", Back(hooks[k]))
        BY <1>2, <1>4, <3>3 DEF HookLandsIn
      <3> QED  BY <3>2, <3>4 DEF Val
    <2> QED  BY <2>3, <2>5, <2>6
  <1> QED  BY <1>6, <1>7

\* The patcher's state keeps its types: the marks it has found, the writes it
\* still has to make, the registers of its search and its tables
\* (CGbaPatcher::PatchInternal, gbasleep.cpp).
THEOREM PatcherTypes == PatchSpec => []PatchTypeOK
  <1>1. PatchInv => PatchTypeOK  BY DEF PatchInv
  <1> QED  BY <1>1, PatchStart, PatchStep, PTL DEF PatchSpec

\* Whatever ROM is loaded, wherever its marks are and whatever the search finds:
\* when the patcher has closed its writer, each of its writes is in the flash,
\* but for what lies behind the last page (CGbaPatcher::Patch, CGbaWriterNor).
THEOREM EveryPatchArrives == PatchSpec => []PatchesArrive
  <1>1. PatchInv => PatchesArrive
    BY DEF PatchInv, PatchTypeOK, ArriveInv, PatchesArrive, Finished, Behind, WrittenThrough
  <1> QED  BY <1>1, PatchStart, PatchStep, PTL DEF PatchSpec

\* Every store that the search has replaced jumps, through its literal, into an
\* activation that was written, and the last of those that share a literal
\* comes back behind itself, for any instructions of the game, as long as the
\* tables had room (gbasleep.cpp, CGbaPatcher::CommonSleepPatch).
THEOREM EveryJumpLands == PatchSpec => []JumpsLand
  <1>1. PatchInv => JumpsLand  BY JumpsHaveLanded
  <1> QED  BY <1>1, PatchStart, PatchStep, PTL DEF PatchSpec

\* What is appended overwrites nothing but filler and stays within the room that
\* was asked for, and every write but that of the sleep routine ends within the
\* guard, for ROMs of any size (CGbaPatcher::SetTrimSize, the tables of patches).
THEOREM NothingOverwritten == PatchSpec => []AppendedBehindData
  <1>1. PatchInv => AppendedBehindData  BY DEF PatchInv
  <1> QED  BY <1>1, PatchStart, PatchStep, PTL DEF PatchSpec
=============================================================================
