---------------------------- MODULE MCGameLaunch ----------------------------
\* Small instances of GameLaunch for TLC.
EXTENDS GameLaunch, Integers

CONSTANTS g1, g2, h1, d1

MCPlainConsole == {[dsi |-> FALSE, is3DS |-> FALSE, restricted |-> FALSE]}
MCConsoles == [dsi: BOOLEAN, is3DS: BOOLEAN, restricted: BOOLEAN]
MCRunConsoles == MCPlainConsole \cup {c \in MCConsoles : c.dsi}

\* A DS starts every program, and has no donors; a DSi starts one game, and its
\* donors are entered by hand and deleted.
MCScenario ==
    IF console \in MCPlainConsole THEN files = {"found"} /\ Donors(ini) = NoDonors
    ELSE {job.rom, job.listed} \subseteq {g1, NoRom}
MCMoreKeys == {"TWL0", "TWL", "TWLONLY"}
-----------------------------------------------------------------------------
(* What HalfwordCopy and NdsLoader say of themselves: every alignment and    *)
(* size of a copy, drivers of a few shapes in rooms of several sizes, every  *)
(* short list of arguments, and the ways to start a file.                    *)
Bytes == INSTANCE HalfwordCopy
Loader == INSTANCE NdsLoader

CopyMemory == [a \in 0 .. 15 |-> 100 + a]
CopySource == [o \in 0 .. 15 |-> o]
FillWord == [k \in 0 .. 3 |-> 7 + k]

(* The theorems on HalfwordCopy, on a memory of sixteen bytes.              *)
ASSUME CopiesExact ==
    \A dst \in 0 .. 4, aligned \in 0 .. 3, size \in 0 .. 11 :
       /\ Bytes!CopiesExactly(CopyMemory, dst, CopySource, aligned, size)
       /\ Bytes!FillsExactly(CopyMemory, dst, FillWord, size)

(* A driver at `base` whose glue and offset table start at g and h in it;    *)
(* every third word is a pointer into it.                                    *)
DriverAt(base, fix, g, h) ==
    [kind |-> "card", size |-> 8, allocated |-> 8, fix |-> fix,
     words |-> [w \in 0 .. 63 |->
       CASE w = 16 -> base [] w = 17 -> base + 248 [] w = 18 -> base + g [] w = 19 -> base + g + 12
         [] w = 20 -> base + h [] w = 21 -> base + h + 8 [] w = 22 -> base + 248 [] w = 23 -> base + 256
         [] w \in 26 .. 31 -> base + 4 * w
         [] OTHER -> IF (w % 3) = 0 THEN base + w ELSE w]]
RoomAt(start, at, allocated, says) ==
    [at |-> at, allocated |-> allocated,
     words |-> [w \in 0 .. (2 ^ allocated \div 4 - 1) |->
                  IF w # says THEN 0 ELSE IF says = 26 THEN start + 128 ELSE start]]
Drivers == {DriverAt(1000, fix, g, 160) : fix \in SUBSET {"all", "glue", "got", "bss"}, g \in {128, 130, 160}}
Rooms == {RoomAt(start, at, allocated, says) :
            start \in {0, 600, 1100, 4000}, at \in {-1, 64}, allocated \in {7, 8, 9}, says \in {16, 26}}

ASSUME DriversPatched ==
    /\ \A s \in Rooms, d \in Drivers : Loader!MovedOnce(s, d) /\ Loader!PatchesAgain(s, d)
    /\ \E s \in Rooms, d \in Drivers : Loader!dldiPatchLoader(s, d, TRUE).ok /\ Loader!Apart(s, d)
    /\ Loader!quickFind(<<1, 2, 3, 1, 2, 4>>, <<1, 2, 4>>) = 12

ASSUME ArgumentsPacked ==
    \A argv \in UNION {[1 .. n -> UNION {[1 .. k -> {7}] : k \in 0 .. 4}] : n \in 0 .. 3} :
       Loader!PacksExactly(argv)

LoaderFile(room) ==
    [space |-> room, size |-> 1001, argStart |-> 1001, dsiSd |-> FALSE, wantDldi |-> TRUE,
     arm9reboot |-> 4, arm7reboot |-> 8]
Running == [irq |-> TRUE, bankC |-> "sub", wiped |-> FALSE, arm7 |-> "menu"]
ProgramFile(there) == [name |-> <<"a">>, there |-> there, cluster |-> 7]

ASSUME ProgramsStarted ==
    \A room \in {RoomAt(4000, 64, 8, 16), RoomAt(4000, -1, 8, 16)}, kind \in {"card", "none"},
       argv \in {<<>>, <<<<"f", "a">>>>, <<<<"s", "d", "x">>>>}, dsi, there \in BOOLEAN :
       LET driver == [DriverAt(1000, {"got"}, 128, 160) EXCEPT !.kind = kind]
           r == Loader!runNdsFile(Running, dsi, LoaderFile(room), driver, ProgramFile(there), <<"f">>, 100, argv)
       IN /\ r.code # "STAT_FAILED" =>
               Loader!HandsOverPatched(r, driver, IF argv = <<>> THEN <<<<"f", "a">>>> ELSE argv)
          /\ r.code = "STAT_FAILED" <=> ~there

(* Plugins: directories of up to three INIs of two extensions, one spelled   *)
(* in capitals, one of two parts, with and without programs.                 *)
LowerCase(part) == CASE part = "NES" -> "nes" [] part = "INI" -> "ini" [] OTHER -> part
Files == INSTANCE Plugins WITH Lower <- LowerCase, FsRoot <- "sd"

ProgramAt(from) == [from |-> from, at |-> <<"p">>]
PluginFile(name, there, items) ==
    [name |-> name, there |-> there, ini |-> <<Files!Header("plugin")>> \o items]
PathItem(item, p) == Files!Item(item, Files!Word(p))
Flag(item) == Files!Item(item, Files!Number(1))
PluginFiles ==
    {PluginFile(<<"nes", "ini">>, TRUE, <<PathItem("path", ProgramAt("root")), Flag("argv")>>),
     PluginFile(<<"NES", "INI">>, TRUE, <<PathItem("dsipath", ProgramAt("_nds")), Flag("bootstrap"), Flag("hbargv")>>),
     PluginFile(<<"x", "ini">>, TRUE, <<PathItem("extension", <<"nes">>), PathItem("launcher", ProgramAt("plugins")),
                                        PathItem("ntrpath", [from |-> "device", device |-> "fat", at |-> <<"p">>])>>),
     PluginFile(<<"gba", "ini">>, TRUE, <<PathItem("path", Files!NoProgram), PathItem("app", ProgramAt("root"))>>),
     PluginFile(<<"tar", "gz", "ini">>, TRUE, <<PathItem("app", ProgramAt("root"))>>),
     PluginFile(<<"gba", "ini">>, FALSE, <<>>), PluginFile(<<"readme">>, TRUE, <<>>)}
PluginDirs == UNION {[1 .. n -> PluginFiles] : n \in 0 .. 3}
FileNames == {<<"a">>, <<"a", "NES">>, <<"a", "b", "nes">>, <<"a", "gba">>, <<"a", "tar", "gz">>}

ASSUME PluginsFound ==
    /\ \A dir \in PluginDirs, name \in FileNames : Files!ListedOpens(dir, name)
    (* An extension of two parts is listed, and no file has it. *)
    /\ \A f \in PluginFiles : f.name = <<"tar", "gz", "ini">> =>
          Files!findPlugin(Files!loadPlugins(<<f>>), <<"a", "tar", "gz">>) = Files!NoPlugin
    (* README.md:60: an expansion pack comes first. *)
    /\ \A dir \in PluginDirs : Files!OpenedWith(Files!loadPlugins(dir), <<"a", "gba">>, "gba", TRUE) = "pack"

Chosen == {[from |-> "device", device |-> "sd", at |-> <<"document">>]}
LoadedPlugins == UNION {{Files!loadPlugins(<<f>>)[k] : k \in DOMAIN Files!loadPlugins(<<f>>)} : f \in PluginFiles}
PluginPrograms == UNION {{p.launcherPath, p.dsiPath, p.ntrPath} : p \in LoadedPlugins} \ {Files!NoProgram}
Systems == [dsi : BOOLEAN, flashcart : BOOLEAN, hbStrap : 0 .. 2, override : BOOLEAN, there : SUBSET PluginPrograms]

ASSUME PluginsOpened ==
    \A plugin \in LoadedPlugins, selected \in Chosen, sys \in Systems :
       /\ Files!OpensAsDocumented(plugin, selected, sys)
       /\ Files!LoaderAsDocumented(plugin, selected, sys)
       /\ Files!FailureUndone(plugin, selected, sys)
=============================================================================
