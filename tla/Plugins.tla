------------------------------ MODULE Plugins ------------------------------
(* Files opened with a homebrew (pluginmngr.cpp): an INI of the plugin       *)
(* directory ties an extension to the programs that open it, and mainwnd.cpp *)
(* chooses the program, the loader and the argument. GameLaunch has the      *)
(* launch itself as SelectDocument.                                          *)
(*                                                                           *)
(* A name is its parts between the dots, the last its extension. A path is   *)
(* [from, at]: on a device, from the root of the menu's one, from its _nds/, *)
(* or from the plugin directory. The value of `extension` in an INI is its   *)
(* parts, spelled with a dot in front or without.                            *)
EXTENDS IniFile

CONSTANTS Lower(_),    \* a part in lower case
          FsRoot       \* the device the menu runs from

NoExtension == <<>>
fileExtensionFromPath(name) == IF Len(name) > 1 THEN <<name[Len(name)]>> ELSE NoExtension
fileStemFromPath(name) == IF Len(name) > 1 THEN SubSeq(name, 1, Len(name) - 1) ELSE name
normalizeExtension(value) == [i \in DOMAIN value |-> Lower(value[i])]

NoProgram == [from |-> "none"]
OnDevice(device, at) == [from |-> "device", device |-> device, at |-> at]
resolveLauncherPath(p) ==
    CASE p.from \in {"none", "device"} -> p
      [] p.from = "root" -> OnDevice(FsRoot, p.at)
      [] p.from = "_nds" -> OnDevice(FsRoot, <<"_nds">> \o p.at)
      [] OTHER -> OnDevice(FsRoot, <<"plugins">> \o p.at)
-----------------------------------------------------------------------------
(* loadPlugins: the files of the directory in its order, each [name, there,  *)
(* ini]. An item that is there and empty hides the ones asked for after it.  *)

ExtensionOf(f) ==
    normalizeExtension(GetString(f.ini, "plugin", "extension", fileStemFromPath(f.name)).w)
PathOf(f, item, default) == GetString(f.ini, "plugin", item, default).w
LauncherOf(f) == PathOf(f, "path", PathOf(f, "launcher", PathOf(f, "app", NoProgram)))
FlagOf(f, item) == GetInt(f.ini, "plugin", item, 0) # 0

PluginOf(f) ==
    [extension |-> ExtensionOf(f), launcherPath |-> resolveLauncherPath(LauncherOf(f)),
     dsiPath |-> resolveLauncherPath(PathOf(f, "dsipath", NoProgram)),
     ntrPath |-> resolveLauncherPath(PathOf(f, "ntrpath", NoProgram)),
     useArgv |-> FlagOf(f, "argv"), useNdsBootstrapHb |-> FlagOf(f, "bootstrap"),
     useHbArgv |-> FlagOf(f, "hbargv")]
IsPluginIni(f) == normalizeExtension(fileExtensionFromPath(f.name)) = <<"ini">> /\ f.there
IsValid(p) ==
    p.extension # NoExtension /\ {p.launcherPath, p.dsiPath, p.ntrPath} # {NoProgram}

loadPlugins(dir) ==
    LET kept == SelectSeq(dir, LAMBDA f : IsPluginIni(f) /\ IsValid(PluginOf(f)))
    IN [k \in DOMAIN kept |-> PluginOf(kept[k])]
extensions(plugins) == {plugins[k].extension : k \in DOMAIN plugins}

NoPlugin == [extension |-> NoExtension]
findPlugin(plugins, name) ==
    LET extension == normalizeExtension(fileExtensionFromPath(name))
        at == FirstOf({k \in DOMAIN plugins : plugins[k].extension = extension}, 0)
    IN IF extension = NoExtension \/ at = 0 THEN NoPlugin ELSE plugins[at]
-----------------------------------------------------------------------------
(* launchSelected: what a file is opened with. rom is what the browser took  *)
(* it for, pack whether an expansion pack is there.                          *)
OpenedWith(plugins, name, rom, pack) ==
    LET plugin == findPlugin(plugins, name)
    IN CASE rom = "gba" /\ pack -> "pack"
         [] plugin # NoPlugin /\ ~(rom = "gba" /\ pack) -> "plugin"
         [] plugin = NoPlugin /\ rom = "ds" -> "launch"
         [] OTHER -> "nothing"

(* launchPluginFile. sys is [dsi, flashcart, hbStrap, override, there]: the  *)
(* console, the settings and the programs on the card. What it gives is the  *)
(* program, its loader, the arguments, and what the failures leave.          *)
canUsePluginHbBootstrap(sys) == sys.dsi /\ ~sys.flashcart
LauncherPath(plugin, sys) ==
    CASE sys.dsi /\ plugin.dsiPath # NoProgram -> plugin.dsiPath
      [] ~sys.dsi /\ plugin.ntrPath # NoProgram -> plugin.ntrPath
      [] OTHER -> plugin.launcherPath
HomebrewLoader(plugin, sys) ==
    IF ~sys.override /\ plugin.useNdsBootstrapHb /\ canUsePluginHbBootstrap(sys)
    THEN 1 ELSE sys.hbStrap
launchPluginFile(plugin, selected, sys, runs) ==
    LET path == LauncherPath(plugin, sys)
        loader == HomebrewLoader(plugin, sys)
        Argument(wanted) == IF wanted THEN selected ELSE NoProgram
        Tried == path # NoProgram /\ path \in sys.there
    IN [path |-> path, launched |-> Tried /\ runs, loader |-> loader,
        argument |-> Argument(plugin.useArgv),
        homebrewArg |-> Argument(loader = 1 /\ plugin.useHbArgv),
        inRecent |-> Tried, music |-> ~(Tried /\ runs)]
-----------------------------------------------------------------------------
(* What may be relied on.                                                    *)

(* A file is listed for a plugin exactly when one opens it, and of two       *)
(* plugins with one extension the same one always does.                      *)
ListedOpens(dir, name) ==
    LET plugins == loadPlugins(dir)
        found == findPlugin(plugins, name)
    IN /\ normalizeExtension(fileExtensionFromPath(name)) \in extensions(plugins) <=> found # NoPlugin
       /\ found # NoPlugin =>
            \E k \in DOMAIN dir : /\ IsPluginIni(dir[k]) /\ found = PluginOf(dir[k]) /\ IsValid(found)
                                  /\ \A j \in 1 .. k - 1 : IsPluginIni(dir[j]) /\ IsValid(PluginOf(dir[j]))
                                                        => PluginOf(dir[j]).extension # found.extension

(* README.md:53: a program of its own for each mode, `path` where there is   *)
(* none, no launch without either; every program lies on a device.           *)
OpensAsDocumented(plugin, selected, sys) ==
    LET mine == IF sys.dsi THEN plugin.dsiPath ELSE plugin.ntrPath
        r == launchPluginFile(plugin, selected, sys, TRUE)
    IN /\ r.path = IF mine # NoProgram THEN mine ELSE plugin.launcherPath
       /\ r.launched <=> r.path # NoProgram /\ r.path \in sys.there
       /\ \A p \in {plugin.launcherPath, plugin.dsiPath, plugin.ntrPath} : p.from \in {"none", "device"}

(* README.md:55-57: the plugin asks for nds-bootstrap-hb only on a DSi       *)
(* without a flashcart and only when not overridden; the setting asks always.*)
LoaderAsDocumented(plugin, selected, sys) ==
    LET r == launchPluginFile(plugin, selected, sys, TRUE)
    IN /\ sys.hbStrap = 1 => r.loader = 1
       /\ r.loader # sys.hbStrap =>
            r.loader = 1 /\ plugin.useNdsBootstrapHb /\ sys.dsi /\ ~sys.flashcart /\ ~sys.override
       /\ r.homebrewArg # NoProgram => r.loader = 1 /\ plugin.useHbArgv

(* A plugin that does not start gives the music back, and a file is recent   *)
(* only when its program was there.                                          *)
FailureUndone(plugin, selected, sys) ==
    LET r == launchPluginFile(plugin, selected, sys, FALSE)
    IN ~r.launched /\ r.music /\ (r.inRecent => r.path \in sys.there)
=============================================================================
