# A verification project for akmenu-next

akmenu-next is the menu of Nintendo DS flashcarts and DSi consoles: it browses
the cards, starts games through nds-bootstrap, Pico-Loader, Unlaunch or its own
loader, keeps their saves and settings, and plays music meanwhile. It is one
program on two processors without an operating system: ARM9 runs the menu as a
single loop, interrupted by the mixer; ARM7 owns the power, the backlight, the
mixer's hardware and the NAND.

This directory holds TLA+ models of its parts, TLC configurations that check
them on small instances, and proofs that hold for every value of the constants.
`PROJECT.json` maps each definition to the source lines it stands for. Paths
below are relative to `src/arm9/source` unless they say otherwise.

## 1. Inventory

For each component: its state, what changes it, whom it works with, what is
hard about it, and what makes it correct.

**Theme music** (`thememusic.cpp`, `wavsource.cpp`, `bcstmsource.cpp`,
`dspadpcm.cpp`). State: the open track, a ring of decoded
samples, two 32-bit byte counters, flags of the stream; in a compressed source the position, the
loaded block, the two samples before it and those before the loop start. Operations: `start`,
`update` (main loop), `stop`, and the maxmod callback, which is an interrupt.
Interacts with the sources (`MusicSource`), the settings, every launch (which
stops it and, if it fails, starts it again) and ARM7 (which must install
maxmod). Hard: a single-producer, single-consumer ring without locks, counters
that wrap, seven ways for `start` to fail; samples that can only be decoded after the two before them,
over frames, blocks and loop points. Correct when: a source gives the track it promised, the ring is never
overrun, what is heard is the track in order, nothing frees the ring under the
interrupt, and a stream that ran dry recovers.

**Launching a game** (`romlauncher.cpp`, `mainwnd.cpp:488-545`,
`launcher/NdsBootstrapLauncher.cpp`, `HomebrewLauncher`, `DSpicoLauncher`,
`savemngr.cpp:150-230`, `recent.cpp`). State: the card (save files,
`nds-bootstrap.ini`, `cheatData.bin`, `lastsave.ini`, `recent.ini`), the
progress window, the music. Operations: one step for each file written.
Hard: power may be lost between any two; almost no result of a write is checked; every
step may fail and has its own way back. Correct when: the loader never starts
with another game's INI or cheats, the save it is given exists and has its
size, no save a game wrote is lost, a failed launch gives the menu back.

**nds-bootstrap donors** (`launcher/NdsBootstrapDonor.cpp`). State: the donor
paths in `nds-bootstrap.ini`, the NAND mount. Operations:
`configureNdsBootstrapDonors` at startup and in every launch. Hard: a path may
be entered by hand, may lie on a NAND that cannot be mounted, and the INI is
rewritten around it. Correct when: what cannot be refuted is preserved.

**DSiWare saves** (`NdsBootstrapLauncher.cpp:67-181, 594-727`). State: two
image files of a title, beside the ROM or in `saves/` by slot. Operations:
create (a FAT12 volume of a given size), move, choose, boot by Unlaunch or
nds-bootstrap. Hard: a geometry search in two variables, FAT arithmetic with
two roundings, two files moved one after the other, power cuts. Correct when: the
volume fits, the FAT covers it, a save is whole or not there, and the title
finds what it wrote last.

**ARM7 and the calls to it** (`src/arm7/source`, `src/share/fifotool.h`,
`nand/nandio.c`, `fsmngr.cpp`, `debugoverlay.cpp`, `globalsettings.cpp`).
State: libnds FIFOs, a command block and two mailbox words in shared memory, VRAM bank C. Hard:
answers carry no question, handlers interrupt the loop between a test and the
clearing of its flag, ARM9 waits without a timeout, both processors jump into a
loader that one of them wrote. Correct when: each question gets its own answer
once, shared words are written before they are read, the menu comes up.

**File browser** (`ui/listview.cpp`, `mainlist.cpp`, `favorites.cpp`,
`mainwnd.cpp`). State: rows, selected row, first visible row, directory, view
mode, favourites, the saves of the directory. Operations: keys, pen, menu
entries, settings; each may fill the list again, which may itself start a
cartridge. Hard: signed and unsigned row numbers at every border, directories
that cannot be opened half way through, rows that stand elsewhere on another console.
Correct when: the selected row exists and is visible, the rows are of the
directory named, a cartridge starts only when asked to.

**Windows** (`ui/windowmanager.cpp`, `window.cpp`, `form.cpp`, `button.cpp`,
`popmenu.cpp`, `msgbox.cpp`, `spinbox.cpp`, `progresswnd.cpp`, `userinput.cpp`,
`settingwnd.cpp`). State: a stack of windows, the focus, two more pointers to
windows, pressed buttons. Operations: keys and pen, and `doModal`, which runs a
loop of its own inside the handler that called it. Hard: handlers that go on
after other windows came and went, pointers to windows that were destroyed.
Correct when: the innermost window has the input, focus comes back in order, a
stroke of the pen belongs to one window.

**GBA saves and expansion packs** (`gbaloader.cpp`, `sram.cpp`,
`main.cpp:249-290`). State: the pack's PSRAM and NOR, a battery-backed SRAM in
banks, one for each, a sign at its page 0, an INI that says whose save a bank
holds, and the `.sav` files. Operations: load into PSRAM, copy to NOR, start
from NOR, the sweep at the start of the menu. Hard: the only copy of a save is in
a bank that the next game takes over, and power can go, or the card refuse a
write, between any two steps. Correct when: a save is in its bank or its file, never in
another game's, and a game starts on its own.

**GBA patcher** (`gbapatcher.cpp`, `gbasleep.cpp`, `gbanes.cpp`, the NOR writer
in `gbaloader.cpp:50-134`). State: the marks a scan found, a page buffer with a
guard behind it, the registers of the search for interrupt handlers. Hard: writes that cross
an erase page, code appended behind data, jumps into it. Correct
when: what is patched arrives in the flash, jumps land where code was put, nothing is
put over data.

**INI files, settings, themes, languages** (`inifile.cpp`,
`globalsettings.cpp`, `settingwnd.cpp`, `theme.cpp`, `themewnd.cpp`,
`languagewnd.cpp`, `mainwnd.cpp`). State: the lines of a file, `gs()`, the rows
of the settings window. Hard: a setting goes through four translations, each a
place to mix up an item, a default or an offset; safe mode hides some; the power goes
off in a save. Correct when: what the user confirmed is what the next
start reads.

**Settings and cheats of a game** (`savemngr.cpp`, `rominfownd.cpp`,
`cheat.cpp`, `cheatwnd.cpp`, `dsrom.cpp`). State: a game's settings lie in five
places: the list on the card, the list in memory, the row of the file, the copy
the window works on, and its rows; the cheats in use are bytes in a file. Hard:
copies do not hear of each other, an entry packs flags into bits, only rows a
game has are shown. Correct when: confirmed choices are on the card, in the
rows and in the next launch.

**Screens** (`gdi.cpp`, `bmp15.cpp`, `font/`, `coverwnd.cpp`, `calendar.cpp`,
`bigclock.cpp`, `userwnd.cpp`, `irqs.cpp`, `timer.cpp`). State: the back buffers,
the pens, the pool of a theme's pictures, the cover of the selected row, the frame counter.
Operations: the drawing calls, `update` and `draw` of the cover, the interrupt
at each vertical blank, which draws the upper screen between any two steps of the main
loop. Hard: two pixels are written at a time and a line has its own stride; files
of any size and depth; a cover that is replaced while it is drawn. Correct when: what is
drawn is the rectangle asked for and nothing beside it, no file is read past its end, a
frame shows a whole cover or none.

**Boot loader for other programs** (`launcher/nds_loader_arm9.c`,
`tonccpy.arm.c`). State: video memory bank C, the parameters and arguments in
it, the driver of the card. Hard: video memory does not take single bytes;
pointers of the driver are moved section by section, by its own word of where they are.
Correct when: the loader has its parameters, each pointer is moved once, a copy
changes no neighbour.

**Signals and slots** (`ui/sigslot.h`). State: the connections of a signal, the
senders of a holder. Hard: both ends die in any order, also inside a call.
Correct when: each knows of the other exactly while both live.

**Reads of the NAND** (`nand/`). State: the key of the disk, the counter of its
first block, the sector whose sign is mended. Hard: the key is found by
calculating backwards from what ARM7 read out of its registers, in two versions of
one arithmetic with words of different width; a read is cut at the size of a buffer.
Correct when: the key that comes back is the console's, and every block of a
read is its plain text whatever the cuts.

**Plugins** (`pluginmngr.cpp`, `mainwnd.cpp:58-109, 502-522`). State: the list of
associations, read from a directory of INIs. Hard: two lists (which files are shown, which
program opens them) must agree; three programs, two loaders and two ways to hand on
the file depend on console, card and two settings. Correct when: a file is shown exactly
when something opens it, with what the documents say.

**Not modelled, or in part**: the rounds of AES, the keys of ES and boot2, which nothing reads;
animation and layout; what the messages of a language say; the launchers that only jump; the Makefiles,
tools, themes and language files. `PROJECT.json` lists each with its reason; section 7 says what could follow.

## 2. The modules

| module | what it is | stands for |
|---|---|---|
| `SoundStream` | abstract specification: what a listener is promised | – |
| `ThemeMusic` | ring, counters, start/update/stop, the interrupt | `thememusic.cpp` |
| `MusicSource` | which files a source accepts, what a read gives, the decoder's arithmetic | `wavsource.cpp`, `bcstmsource.cpp`, `dspadpcm.cpp` |
| `MusicPlayer` | `ThemeMusic` over `MusicSource` | `thememusic.cpp` |
| `GameLaunch` | a launch, step by step, the card, donors, power cuts | `romlauncher.cpp`, `launcher/`, `savemngr.cpp`, `recent.cpp` |
| `DsiWareSave` | `createDsiWareSave`: the search, the volume, the growing file | `NdsBootstrapLauncher.cpp:67-143` |
| `DsiWareLaunch` | where a title's saves are, over launches by two booters | `NdsBootstrapLauncher.cpp:145-181, 594-727` |
| `ArmIpc` | ARM9 and ARM7, FIFOs, shared memory, handover to Pico-Loader | `src/arm7/source`, `nandio.c` and callers |
| `ListView` | the list as pure operators on `[rows, selected, first, visible]` | `ui/listview.cpp` |
| `MainList` | the browser over `ListView` | `mainlist.cpp`, `mainwnd.cpp`, `favorites.cpp` |
| `WindowManager` | windows, focus, nested modal loops, keys and pen | `ui/`, `settingwnd.cpp`, `userinput.cpp` |
| `GbaSaves` | the pack, its SRAM, the INI and the `.sav` files over power cycles | `gbaloader.cpp`, `sram.cpp`, `main.cpp` |
| `GbaNorWriter` | the page buffer of a NOR write | `gbaloader.cpp:50-134` |
| `GbaPatcher` | what is written into a ROM, from the marks in it | `gbapatcher.cpp`, `gbanes.cpp` |
| `GbaPatch` | the patcher over the writer, the sleep search | `gbapatcher.cpp`, `gbasleep.cpp` |
| `IniFile` | an INI file as a list of lines | `inifile.cpp` |
| `Settings` | the settings window's tabs and rows; file, `gs()`, windows and start, power off anywhere | `settingwnd.cpp`, `globalsettings.cpp`, `mainwnd.cpp`, `theme.cpp` |
| `CustomSaves` | the entry of a game and the list of entries | `savemngr.cpp`, `savemngr.h` |
| `CheatTree` | a game's cheats, folders and selections | `cheat.cpp`, `cheatwnd.cpp` |
| `RomInfo` | what a file is taken for, a game's windows, composed with all of `Settings` | `dsrom.cpp`, `rominfownd.cpp`, `cheatwnd.cpp` |
| `Gdi` | drawing calls as operators on a buffer; a font's file, UTF-8, the dots of a character | `gdi.cpp`, `font/font_pcf.cpp` |
| `Covers` | pictures from files, the cover against the vertical blank | `bmp15.cpp`, `coverwnd.cpp` |
| `UpperScreen` | calendar, clock, user's window, the interrupt | `calendar.cpp`, `bigclock.cpp`, `userwnd.cpp`, `irqs.cpp` |
| `NdsLoader` | loader, parameters, arguments, the driver patched in | `launcher/nds_loader_arm9.c` |
| `HalfwordCopy` | copies and fills of memory that takes no bytes | `tonccpy.arm.c`, `launcher/libfat_ext/tonccpy.c` |
| `Signals` | connections of signals and holders | `ui/sigslot.h` |
| `NandRead` | key arithmetic, counters, reads cut at the buffer, start of the disk | `nand/` |
| `Plugins` | INIs of plugins, the plugin of a file, its program and loader | `pluginmngr.cpp`, `mainwnd.cpp` |
| `MC…` | the instances TLC checks | – |
| `…Proofs` | the theorems | – |

How they fit together: `MainList` extends `ListView`. `ThemeMusic` implements
`SoundStream` (refinement mapping in `ThemeMusic`: the pending samples are what
lies between the counters); `MusicPlayer` gives it a source that decodes. `DsiWareLaunch` takes the outcomes of
creating an image from `DsiWareSave` (whole, or no file; cut off only by a power
cut), and leaves INI, cheats and the start of nds-bootstrap to `GameLaunch`.
`GameLaunch` counts the entries of the progress window that `WindowManager`
stacks; `GbaPatch` extends `GbaPatcher` and `GbaNorWriter`; `RomInfo` extends `Settings`, `CustomSaves`
and `CheatTree`, and `Settings` extends `IniFile` and `ListView`; `Plugins` extends `IniFile`. `WindowManager` takes "a launch fails" and "a row opens a message box"
as choices that `GameLaunch` and `MainList` make. `Gdi`, `Covers`, `UpperScreen`,
`NdsLoader`, `HalfwordCopy`, `Signals`, `NandRead` and `Plugins` are functions without a state machine of their own: the
`MC` module of the component that calls them instantiates them and states what they must give as
named assumptions, which TLC evaluates at the start of that run.

### ThemeMusic

One main loop and one interrupt. The interrupt (`FillStream`) runs to its end
and may come between any two steps of the main loop; `queueBytes` is split at
every access to a shared variable: snapshot of both counters, decoding into a
segment, publication of `_writeTotal`. The unit is a 16-bit sample, and a
sample is its index in its track, so "the right sample" can be stated. The
sizes 8/2/3 with counters modulo 16 keep the ratios of the source (512 KiB ring, a
prime of a quarter); no track is as long as the ring or a part of it, so a stale
slot never looks right by chance.

### MusicSource, MusicPlayer

`ThemeMusic` assumes an endless source of the samples of a looping track;
`MusicPlayer` runs the source that is open beside it and compares
(`SourceAsPromised`). A file is a record of its header fields, and a byte is
its address. A sample of a wav is where it was read; a sample of a bcstm is
decoded right only from the address of its frame, its place in the frame and the two samples
before it, everything else gives `Wrong`. `read` is its own loop, folded over at most as many turns as
frames. What a broken file must not do is in `OnlyGoodFilesOpen` and in
`TracksAssumption`. The decoder's sums are there with their numbers too, to show that they fit 32 bits.

### GameLaunch

`main` is the place in the launch: `save`, `record`, `recent`, `loader`,
`cheats`, `run`, `game`, `failed`, and the boot of the menu (`donors`,
`resume`, `autorun`). Each step ends with what it leaves on the card. A file
that is saved may afterwards be unchanged (it could not be opened), truncated
or whole, and the code goes on in all three cases, because `SaveIniFile`
(`inifile.cpp:202-230`) reports nothing its callers look at. Removing a file works on a
writable card. The write lock is switched only while the console is off. A
title in NAND is found or not: a free choice.

The properties name their exceptions. `NoStaleBoot` excepts a homebrew on a
locked card, which starts with whatever INI is there. `SaveReady` excepts
autorun with the `saves/` folder: `autoLaunchRom` passes no path
(`romlauncher.cpp:290`), so the file prepared is `.sav` and the one handed on need not exist.
`MenuBack` names the three late failures (INI, cheats, `runNdsFile`) that leave
the launcher's progress window over the menu, where it takes every key.

### DsiWareSave, DsiWareLaunch

`DsiWareSave` follows one call: the search for sectors per track and heads,
the last trial, the boot sector, the growth in pieces of 32 KB. Sizes are in
sectors. `DsiWareLaunch` has a public and a private image, the place
beside the ROM and two others, two booters and any number of launches that
fail or are cut; `MaxSessions` bounds how often the title is played. An image
may also be empty or short, which only a power cut during its creation can
cause (`SavesThere` says so), and which every later launch takes for a save: the properties say when there can be one, the code does not
repair it. A launch by Unlaunch ends with the title or, when Unlaunch cannot be told the ROM's path, in the
menu with an error (`NdsBootstrapLauncher.cpp:667-670`); by then the saves were moved beside the ROM and
those missing were created, and the next launch, by either booter, takes them from there. Nothing goes on from
Unlaunch to nds-bootstrap within one launch. `pathFits` is a choice; what it stands for, `makeUnlaunchPath`, is evaluated in `PathsToldUnlaunch`: every character near a border of the ranges of UTF-8
comes out whole, no two texts, broken ones included, become one path, and none outgrows its buffer (capacities up to 14
stand for 259).

### ArmIpc

Two programs and their interrupts. ARM9 waits in a loop for every answer, so
"waits" is a place of `pc9`. ARM7's main loop tests and clears
`maxmodInstallRequested` in two steps, between which its FIFO handler may run.
The command block, the mailbox word, the SCFG copy and VRAM bank C are shared
variables. Left out: messages nobody sends (`ARM7_REBOOT`, `BRIGHTNESS_NEXT`,
`SHUTDOWN`), and the `PING` branch of `nandio.c`, which cannot be reached.
Fairness: every processor and every interrupt handler is weakly fair, because
hardware does not stop; nothing is assumed about the NAND's answers.

### ListView, MainList

A list is a record and each method an operator, so that what `selectRow` or
`scrollTo` guarantee is a lemma. The browser's keys and pen strokes are
actions; filling the list goes through `enterDir` with every early return, and
through `onFolderChanged`, which starts a cartridge when its row is the
selected one. The three layouts are the consoles: a DS, a DSi with a flashcart,
a DSi from its SD card. File types and hidden files are one filter (`.sav`), the
four sort orders one rank, favourites a set; that a rank can stand for them is `AnySortIsOrder`: the
comparison given to `std::sort` is a strict weak order in each sort mode, folders first. `safeMode` only takes behaviours away.

### WindowManager

Windows are numbered by the depth of the loop they belong to; a point of the
screen is the part of the current window under it. `then` holds what an
interrupted handler still has to do: open another window, hide the progress
window, confirm the settings, finish a touch-down or the click of a button. A frame whose
key was handled drops what the pen did (`userinput.cpp:87-128`), hence the free
`held'` in `KeyOf`. `grab` is a history variable: where the present stroke
began, as long as nothing but the pen was used. `broken` stops the
model where the program follows a pointer to a destroyed window.

### GbaSaves

`pc` is the place in `gbaloader.cpp`: opening a save, storing the one of the
game before, copying the ROM, the INI, the jump; a game in progress; the sweep of the
start. A save is `[game, n]`, the n-th the game made, so a stale one differs from a newest one and
from another game's. The code has weak spots where a save can be lost. They
are listed one by one in `exposed`, each a condition on a
step (a write refused and not noticed; power cut after the new save is in SRAM and before the INI
says so; a save in the legacy bank that the sweep ignores). The properties speak of
all behaviours until one of them, and a new spot would not be in the list.

### GbaNorWriter, GbaPatcher, GbaPatch

A write is a place and a length. `GbaNorWriter` keeps the flash as it is, the buffer,
and `image`, a history of the flash if writes went there at once; `PatchesArrive` compares them after
`Close`. Pages have their real size; only cells a patch begins or ends in are
looked at. `GbaPatcher` has the tables of the save libraries as sequences of
writes, one for each case in the code, and the list of games that are put to sleep at known places,
in the three kinds the `switch` of `PatchSleep` has (`SleepBySingle`, `SleepBySeveral`, `SleepByCode`).

`GbaPatch` goes through it step by step. The scan takes the marks of the ROM one at a time
(`ScanMark`, with `cur` the mark and `at` the address it goes on at, since a mark is overlooked
that starts in the words skipped behind another); so do the loops over `iPatchInfo`
(`SaveMark`), where a version the code does not know calls `Error` after the marks before it have
been written. `WriteNext` makes the next write of those to come, `todo`. For a ROM in no list, the
search meets any short sequence of loads and stores (`Ldr`, `Str`; bounds `MaxInstrs`,
`Registers`), at the places `InSearch` allows, with literals `Readable` says are in the ROM. `hooks`,
a history, has the stores it has replaced; the tables have room for fewer. `spilled` notes a write
longer than the guard, which the sleep routine (428 bytes) can be.

The assumptions say what the code has fixed or gets from its caller: room for at most 32 marks
(`EMaxAssumption`); a ROM of at least one byte, whose last byte that differs from the filler is in it, and whose places in
the lists and marks are addresses (`RomsAssumption`); literals and ARM instructions at word
addresses, and no store at address 0, where a cartridge has the branch to its start
(`SearchAssumption`); and the sizes of page and guard in `gbaloader.cpp`
(`PageAssumption`): the patches are measured against these, while `GbaNorWriter` and the proofs about it take any.

Left out: the bytes 0x4000-0x8000 that `Commit` writes back after erasing another page (the erase of the pack is
external and taken to clear its own page only); a `malloc` that fails, of that copy (`gbaloader.cpp:74`)
or of the page buffer (`:92`), without which nothing is patched; and the missing `break` at
`gbapatcher.cpp:226`, whose next case only a version word equal to an ARM instruction pair would enter.

### Settings, RomInfo

A line of an INI is a record and a value a number or a word; `IniFile` walks
the lines like the code does, and a section the code does not close does
not close here. `Settings` names a setting by its item. Loading clamps and defaults item by
item, saving writes the order of the code; the settings window's rows are translated
both ways (`ShownAs`, `ReadAs`). A save can be cut after any line, or in the middle of
one. `RomInfo` adds the rows of a folder with two files of one game, the window of a game's settings, its cheat
window, and launches that update the list (`PrefillGame`). Its state is the product of
many windows, so what cannot influence each other is not interleaved: games' windows open in
the first session, the menu's windows only while no row was read. LEFT on
the first cheat row reads an array at `SIZE_MAX`, A on a list without rows its first entry: the model goes to
the first row, or to `lost`. What a loop inserts into a list window is `Inserted` of `ListView`.

### Gdi, Covers, UpperScreen

The code fills two pixels with one write, starts and ends a line with single
ones where it is odd, and steps from line to line by a stride of 16 bits; the
operators have that loop (`Painted`), and the assumptions of `MCMainList` compare it
with the set of pixels that was meant: every rectangle of up to 8 by 3 pixels at every place of
a screen of 8 by 6 (`RectanglesFilled`), copies from pictures of other widths
(`PicturesCopied`), with what a mask lets through (`MasksHold`, which also says in which
case it does not hold), frames and lines (`FramesDrawn`), the three blended channels
(`ColoursBlended`), a text broken over lines (`TextInside`), what a presented frame
leaves for the next (`FramesPresented`).

A file of a picture is a record of its header and its lines. `CoversDecoded` says
of each of a set of good, short, wrong and odd files that nothing outside it is read and,
of those that decode, which columns are cut. `CoversDrawnWhole` puts a vertical blank
between any two assignments of the update: the blank draws nothing, the old cover or the
new one, and inside the screen wherever the theme puts it. `CoversChosen` orders the
places a cover is looked for. `PicturesKept`: a name gives the picture
read first, also when its file has changed since.

`CalendarShown` compares the days of each month of 130 years with the calendar's rule
(`DaysRight` says that February 2000 is the one it gets wrong) and lays out the days of a
month from every weekday; `TimeShown` has every hour in three date formats, by twelve and by
twenty-four; `BlanksCounted` has the frame counter around its turns, and the timer
running over between the two reads of a tick.
`CharactersRead` decodes each of 65,536 characters, walks every text of four bytes
of six kinds, cut anywhere, and reads back the titles that `unicode.cpp` makes; `CharactersFound` searches sorted tables of up to four glyphs, with gaps and repeats.

### NdsLoader, HalfwordCopy

Memory is words with byte addresses. `DriversPatched` moves drivers with each
choice of the pointers to be fixed into rooms before, above and beyond their
own, allocated smaller, equal and larger (`MovedOnce`: a pointer is moved once, however many
sections visit it, as long as the addresses of driver and room do not meet; `PatchesAgain`: a driver
patched in can be patched in again). `ArgumentsPacked`: the bytes handed on are
the arguments, each with its end; `ProgramsStarted`: whatever way `runNdsFile` goes, a
program started has its driver, and one that is not there fails. `HalfwordCopy` has the loops of a copy
and of a fill; what they give is proved, and evaluated on sixteen bytes in `CopiesExact`.

### Signals

`ConnectionsKept`: every history of six births, deaths, connections, copies of
two signals and two holders. `SlotsCalled`: a call during which a slot connects
or destroys still calls those that were there; `NextMustLive` says what a slot must
not destroy. `OnlyDisconnectBreaks` has the one operation that loses track, which nothing
calls.

### NandRead

A number of 128 bits is four words, of a width that is a constant, so that `SumsExact`
can compare the sums of `crypto.c` with those of the integers for every pair of numbers with
words of two bits: no carry gets lost in the four rounds. `KeysRecovered`: `crypto.c` and
`f_xy.c` give the same key, as a comment says, and from each key the id of the console and
the key come back, on a DSi and a 3DS, through the two turnings-round of the id's bytes.
A block of the disk opens with its own counter only, which is all that is assumed of AES; `SectorsRead`
reads every part of a disk of six sectors, two at a time, with a sector that fails and a sign to be mended anywhere, and
counters that begin just below a carry. `NandStartsRight`: a start that succeeds has the key of this
disk, and only a DSi's disk has a sign to mend.

### Plugins

A name is its parts between the dots. `PluginsFound` reads every directory of up to three of
seven kinds of files (an extension in capitals, two of one extension, a program that is
there and empty, an extension of two parts, an INI that cannot be opened):
the files that are listed are those a plugin opens, and of two plugins the first. `PluginsOpened` has
every console, card, setting and set of programs present, and compares the program, its loader and the
arguments with `README.md:53-57`.

## 3. The runs

| run | shows | instance | states |
|---|---|---|---|
| `theme_music` | the source's promise, safety, refinement of `SoundStream`, recovery from an underrun | ring 8, counters mod 16, a wav, a looping mono and a stereo bcstm, 15 files to refuse | 462 k |
| `game_launch` | no stale boot, save ready, menu back, no save lost, startup keeps INI and donors | two games, a homebrew, a document, `saves/` folder, recent list of 2; a game on each DSi with donors entered by hand; with the assumptions on the boot loader and on plugins | 4.10 M |
| `launch_manual_donor` | *violated*: a launch loses a manual NAND donor | eight consoles, three donor keys | – |
| `arm_ipc` | answers, order of shared memory, handover, the menu comes up | every kind of console; with the assumptions on NAND reads | 315 k |
| `dsiware_save` | fit, FAT, whole or nothing, termination | 0..80 sectors, every threshold, powers of two, both ends of the u16 | 6.8 k |
| `dsiware_launch` | saves there, newest used, none lost | two kinds, three places, two sessions; with the assumption on paths | 1.63 M |
| `main_list` | selection shown, rows of the directory, slots asked for, way back | three consoles, windows of 3 and 2 rows, a folder of four and an empty one, two favourites; with the assumptions on sorting, screens, covers and fonts | 305 k |
| `window_manager` | innermost window has the input, strokes kept | two windows above the main one, failing launches; with the assumptions on signals | 2.11 M |
| `window_captured` | *violated*: the pen is released into a destroyed window | as above | – |
| `gba_saves` | newest save kept, files pure, a game starts on its own save, the sweep | four games (one for NOR only, one with a path too long), three saves | 1.84 M |
| `gba_patch` | patches arrive, jumps land, nothing over data | ROMs for every library and list, two searched ROMs with three instructions in each search | 31 k |
| `settings` | what was confirmed is what the next start reads, of the menu, of a game and of its cheats; the focus is on the screen | two starts, one turned value, one cut save, two windows of games; a flashcart, a DSi, a new and a used card | 156 k |

Why the bounds are enough. *Theme music*: the counters wrap after two rings
and the track after less than two, so every alignment of the two occurs; loops begin and end inside a frame of two samples and in other blocks; more ring
only repeats them, and the proofs cover every size for what they state. *Launch*: two games are enough
for one to be stale for the other, one homebrew and one document reach each loader; the recent list overflows with
three programs. A donor in the INI survives or not by its own key alone; two keys and two hand-entered kinds of path are all cases. *DSiWare*: two images are the smallest set of which one
can have been moved; two sessions tell newer from older. *List*: a folder of four rows is
longer than either window, an empty one and lists shorter than the window are
there. *Windows*: with two modal windows a
handler resumes both into a main-window handler and into another modal one; a third repeats the second.

*GBA saves*: three saves let one game be saved twice and another between; with two banks a third game is
the one put out. *Patches*: addresses around one page end, and pages far from and next to each other. *Settings*: each value goes
through the translations by itself, so one turned value at a time meets every
mix-up of two; a followed setting of each kind (name, word, switch, range,
offset, a row whose place depends on the console) stands for its class, and every row is there to be moved over.

Fairness appears in three specifications only: `ThemeMusic` (main loop and
callback: the loop of `main.cpp:309-326` never blocks and the mixer's timer
keeps firing; nothing forces a user to act), `ArmIpc` (hardware) and
`DsiWareSave` (one sequential function). `CHECK_DEADLOCK FALSE` stands where
the system really ends: a started cartridge, the handover to a loader, a
function that returns, a broken pointer, an array read outside its bounds. In `game_launch` and `dsiware_launch`
power can always be cut, and deadlock is checked.

## 4. Where the code and its documents disagree

- `launch_manual_donor`: `NdsBootstrapDonor.cpp:294` says "Preserve manual NAND
  paths when they cannot be checked"; a launch removes the INI they are in
  before reading it.
- `window_captured`: `windowmanager.h:33`, "process touch for non-focusable
  window"; B closes the settings while the pen holds the tab switcher, and the
  release goes to a button that was destroyed with them.

Seen on the way; no document speaks of these.

*Windows and browser*: a message box opened
by the folder-up button while it is being pressed leaves `_windowBelowPen` behind
(`broken` in `WindowManager`); a release in a frame with a handled key is lost, so a
button stays pressed and a later stroke ending on it clicks it; a
`cheatData.bin` of four bytes leaves a compared word unread
(`NdsBootstrapLauncher.cpp:315`); `setBrightness` ignores its argument;
`UpdateRecent`, `RemoveFromRecent`, `UpdateFavorites` and `removeRow` have no
caller; on a DSi started from its SD card, leaving a device selects row 3, the
cartridge, one press from starting it (`mainlist.cpp:549`); `setRomInfo`
indexes before it checks its bounds (`mainlist.cpp:510`).

*GBA*: the INI is saved after the new save is in SRAM; a write that fails is
not noticed; the start's sweep ignores a legacy save; `Close` forgets the guard
bytes (`gbaloader.cpp:128`); `Error` leaves by `longjmp` without `Close`
(`gbapatcher.cpp:209`); the sleep routine is longer than the guard
(`gbasleep.cpp:227`); the test for two FLASH1M versions cannot be reached
(`gbapatcher.cpp:753`), nor the message for ROMs above 32 MB
(`gbaloader.cpp:153-158`); the offsets of Golden Sun 2 are read past their array.

*Settings*: a save in safe mode writes what safe mode pretends over the list type,
hidden files and view mode (`globalsettings.cpp:147, 210`); the theme
window lists themes it did not validate, and after a failed restart `gs().uiName` stays
on such a one (`mainwnd.cpp:909-915`); power off after `checkInitIni` and before the language
is chosen means it is never asked again; a line torn by a cut save reads as `""`
or 0; comments are gone after a save; an empty `startupFolder` reads before
its first character (`globalsettings.cpp:75`); `[a=b]` does not end a section.

*A game's settings and cheats*: rows the window hides are set back to "global" on
OK; the row of a second copy of a game overwrites what was chosen in the first;
a launch that fixes the save type updates the list and not the row; an
export to a full card leaves a torn list (`savemngr.cpp:98-130`); LEFT on the
first cheat reads `_indexes[SIZE_MAX]`, A on an empty list `_indexes[0]`;
`generateList` and `deselectFolder` may dereference `end()`; `searchCheatData` does not end
on a truncated index; the access-control test at `dsrom.cpp:180` cannot be reached.

*Screens*: the calendar adds 1900 to a full year, so 2000 is taken as not leap
(`calendar.cpp:65`); a masked part of odd width at an even place draws its last column
unmasked (`gdi.cpp:541`); `bitBlt` draws nothing at an odd place (`gdi.cpp:386`); a line on the
upper screen has the colour of the main screen's pen (`gdi.h:40-45`); a glyph without
a character keeps an uninitialized code, and a search in an empty font reads index 0
(`font/font_pcf.cpp`).

*Boot loader and signals*: `runNdsFile` builds a command line and leaves `argc` at 0, so no
argument is handed on (`nds_loader_arm9.c:377-394`); a driver that does not fit returns with
interrupts off and bank C taken (`:343-347`); `disconnect` of a holder connected
twice strikes out one connection and forgets the other (`sigslot.h:124-138`).

*NAND and plugins*: the FAT sign is mended only where a chunk of a read begins, so a sector reads
differently alone and behind another (`nandio.c:202`). The INI of an extension of two parts (`tar.gz.ini`) is listed and never found; an
empty `path` hides `launcher` and `app`; a plugin for `.nds` takes over native games; a file is
in the recent list although its plugin then did not start. A rectangle from two points, the second
not below the first, takes its height for its width (`ui/rectangle.cpp:30`).

## 5. What is proved

TLAPS checks, for every value of the constants the named assumptions allow:

| theorem | says |
|---|---|
| `ThemeMusicTypeOK`, `ThemeMusicRingNotOverrun` | for any ring, prime, chunk, counter range and tracks, the ring is never overrun |
| `ThemeMusicCallbackHasRing`, `ThemeMusicAllOrNothing` | the interrupt finds its ring wherever it comes; every path of `start` and `stop` leaves all of the music or none |
| `ThemeMusicHeardInOrder` | `ThemeMusic` implements `SoundStream`: the track is heard in order, nothing lost, repeated or invented |
| `PlayerIsThemeMusic`, `PlayerRingNotOverrun`, `PlayerHeardInOrder` | the same with any files behind the music |
| `DecoderFits` | no sum of the ADPCM decoder leaves 32 bits, whatever the file |
| `CopyIsExact`, `FillIsExact` | for any memory, place and length, a copy or fill by halfwords and words changes the bytes asked for and no other |
| `GameLaunchTypeOK`, `LaunchInvariant` | the inductive invariant of a launch |
| `GameLaunchNoStaleBoot` | no loader starts with another launch's INI or cheats |
| `GameLaunchSaveReady` | a game's save is there and has its size |
| `GameLaunchPlayedSaveKept` | no step of a launch loses a save that was played |
| `GameLaunchRecentDistinct` | the recent list has no duplicate and keeps its length |
| `GameLaunchMenuBack` | a launch that fails gives the menu back, with the launcher's window only after three returns |
| `GameLaunchStartupPreserves` | the start's configuration of the donors leaves the rest of the INI and the donors it can use |
| `ArmIpcTypeOK`, `ArmIpcAnswersPaired` | each question of ARM9 gets one answer, its own, on its channel |
| `ArmIpcSharedInOrder`, `ArmIpcHandedOver` | what the processors share is written before it is read; ARM7 jumps into a bank that is its own |
| `DsiWareSectorsFit`, `DsiWareFatSound`, `DsiWareWholeOrNothing` | for every size, the volume fits, its FAT has an entry for each cluster, and no half image is kept |
| `DsiWarePlayedKept`, `DsiWareSavesThere`, `DsiWareNewestUsed` | for any kinds and places of saves, none is lost and the newest is used |
| `GbaTypeOK`, `GbaNewestKept`, `GbaStartsOnOwnSave` | for any GBA games and saves, outside the listed weak spots the newest save is where the menu looks for it, and a game starts on its own |
| `GbaFilesPure`, `GbaSweptIntoFiles` | no `.sav` file gets another game's save; a start that stores the saves leaves none in PSRAM's bank only |
| `MainListSelectedShown` | for any card, console and view modes of two rows or more, the selection exists and is visible |
| `MainListListingOfDir` | the rows and marked saves are of the directory whose name is shown |
| `MainListSlotAsked`, `MainListBackSelectsFolder` | a cartridge starts from its own row only; leaving a folder selects it |
| `WriterHidesNothing`, `CloseWritesThrough` | for any page, guard and writes no longer than the guard, reading through the NOR writer gives what was written, and after `Close` the flash has it |
| `PatcherTypes` | the marks, writes, registers and tables of the patcher keep their types |
| `EveryPatchArrives` | for any ROM, marks and instructions, every write of a patcher that closes its writer is in the flash, wherever pages end; but for the guard of the last page |
| `EveryJumpLands` | any number of replaced stores that the tables had room for land in an activation, through literals that may be shared, and the last one of each literal returns behind itself |
| `NothingOverwritten` | for ROMs of any size, what is appended lies behind the game's data and in the room asked for, and no write but the sleep routine is longer than the guard |
| `WindowManagerFocusInTop` | for any number of modal windows, the input and the focus are in the innermost one |
| `WindowManagerStrokeKept` | a stroke of the pen ends in the window it began in |
| `RomInfoGamesKept`, `RomInfoRowsFresh` | for any files of any games and any list on the card, what OK confirmed of a game is on the card and in memory, and in a row of the game |
| `RomInfoCheatsKept` | for any records of folders and codes, the codes in use are those that were marked at OK |
| `RomInfoRowShown` | for any console, languages, themes and height of a list, the row with the focus, or selected in a list, is on the screen |
| `RomInfoSettingsKept` | for any file of settings, languages, themes and either console, what was confirmed last is what the next start reads and what `gs()` has, wherever a save was cut off |

How the proofs go.

*ThemeMusic.* `RingNotOverrun` is not inductive: between the snapshot of
`queueBytes` and the store of `_writeTotal` the bound depends on the length
the snapshot allowed, and the difference of two wrapped counters says nothing
until it is known to be small. `RingInv` adds the type of each variable at each
place of the main loop and that used samples plus the reserved length stay within the
ring; lemmas about wrapped addition, whole frames and the ring offset carry the arithmetic (`WrapLemma`, `WrapSubLemma`, `OffsetLemma`,
`QueueBytesLemma`). `SizesAssumption` is what makes the counters a multiple of the ring, as 2^32 is
of 512 KiB. `ControlInv` says for each place of the main loop which of
ring, source, stream and flags are there; `CallbackHasRing` and `AllOrNothing`
are two readings of it. For the refinement, `FramesInv` keeps every count in whole frames, and
then each step of `Next` is a step of `SoundStream` under the mapping of its `INSTANCE`, or leaves
it alone: the callback takes the front of `Pending`, the store of
`_writeTotal` appends what was decoded (both by index, since ring and counters wrap), all
others keep `Pending` (`HeardNext`). It needs a request of the mixer no longer than the ring, as
16,384 frames are of 512 KiB.

*MusicSource.* Three terms, each a product of bounded factors (`ProductBound`), and
the clamp of `parseInfo` on the coefficients; without it the sum could reach
2·2^30 + 2^29.

*HalfwordCopy.* Fills of adjacent ranges compose to one (the sum of their lengths, offsets
carried along), so a copy is its first byte, its words or halfwords, its last byte; the
halfword around a single byte puts the neighbour back as it was read.

*GameLaunch.* `LaunchInv` is `TypeOK` with five parts: how many progress
windows there can be at each step, what the job is and which save was prepared
(`JobInv`), what the INI and `cheatData.bin` hold between being written and
being used (`IniInv`, `CheatInv`), and the recent list. `NoStaleBoot` speaks of one place, but what makes it true
was done two or three steps before; `IniInv` carries it there. `MenuInv` adds to it which
windows and which sound a launch still has at the point where it fails.
`StartupPreserves` follows from the type invariant and what
`Configured` does with each donor; `AbsenceAssumption` tells a path from no path.

*ArmIpc.* `AnswersPaired` needs to know where the one question that ARM9 waits
for is: in the FIFO and last there, put down for the loop, in the loop's hands or
answered, and in only one of them (`QuestionInv`). `SharedInOrder` rests on `StartInv`, what each line
of ARM7's `main` has set, and `NandInv`, how far ARM9's start is when it asks;
`HandedOver` on an order to reset that, once sent, ARM9 does not follow with anything (`HandoverInv`).

*DsiWareSave.* The search invariant is `sectors = perTrack · heads²` with the
last accepted trial at most `max`; the growing file keeps its boot sector and
length until the whole size is reached. For the FAT both roundings are replaced by
their two bounds (`RoundedUp`); then each of the three cluster sizes leaves a linear
inequality: the two clusters nobody needs, those of boot sector and root directory,
pay for what the roundings lose.

*DsiWareLaunch.* `NewestUsed` needs that, as long as the settings leave the
place alone, no two places hold a played save of the same kind (`SinglePlaceInv`):
a move only goes to a place without a file, and a creation never writes over one.

*GbaSaves.* The properties speak of where a save is; the invariant (`SaveInv`, which TLC checked
as well) says why it can be found. While the sign at page 0 is set, the names in force, the INI
file's, or those in memory from the moment a bank is refilled until the file is whole again, are true: a
named bank holds that game's newest save (`BankInv`), and a game with no bank has it in its file
(`KeptInv`); no game has both places (`NamesApart`). Without the sign nothing has been loaded yet and the
only save is the one at page 0 (`LegacyInv`). Each step of a start or load keeps this because of what
the steps before it have stored (`JobInv`); `RomInv` ties the ROM that slot 2 shows to the names. All of it is
claimed while `exposed` is empty, as the properties are, and one lemma per action shows that the
action keeps it or exposes a weak spot.

*MainList.* The invariant is `ListInv`: the selection is in the rows and in the window, the rows are
what `RowsOf` gives, the window has two rows or more. `ListView`'s operators have a lemma each
(`PickedGood`, `FilledGood`, `ResizedGood`, `DraggedGood`).
For the rest, each step is one of three (`StepEffects`): the listing stays, a slot of the
top menu is opened, or a directory is listed anew with a row selected, and then it is the same one, the favourites,
the row that was open or the way back. `ListingOfDir` is inductive over these.
That `Sorted` lists every entry of a set once is shown by `SortedPermutes`, from the
library's facts on cardinality.

*WindowManager.* `FocusInTop` alone is not inductive: what a removed window leaves
focused depends on what was saved in the entry below it, and what a handler
does when it goes on depends on when it was interrupted. `Good` adds that every
saved focus is in its own window and can hold it, that a captured window is one
that cannot, and, for each waiting handler, what it counts on: to hide
the progress window (`HidesGood`) it must be the outermost one with that window
above the main one; to finish a touch-down (`DownGood`) it must be the outermost
one with nothing between, and the pen has not been left on a window that outlives
it. There is a lemma for each operation of `cWindowManager` and each action; `GoneGood` is the end of a loop. `StrokeInv` says how a stroke is kept: the window it went
down in is captured, or is focused with none captured.

*GbaNorWriter.* `Overlay` relates the three copies of a cell: in the buffered
page and its guard the buffer has what was written, elsewhere the flash has.
The step that matters is the turn to another page (`Turned`): the page is
committed, and a guard that differs from the flash goes along in the buffer when the
page behind is turned to, or is written to that page on the way.

*GbaPatch.* The invariant is `PatchInv`, checked by TLC as well before its proof. That the writes fit the guard is a fact about each
table (`SaveFits`, `SleepFits` and the lemmas before them), since a size and an offset in it
are numbers; only the code of a Classic NES game is longer than 256 bytes, and it is at a place of its
page from where it fits. With that, `ArriveInv` carries the writer's own invariant through every step. For the
jumps, `SearchInv` says that a register with the handler's address was loaded from a literal inside the
game's data, and that a replaced store is outside every such literal and in front of the appended code; `TablesInv` that, as long as there was room, the three tables are the list of replaced stores, each
with its jump, its branch and its activation. That the jumps land is then about the
order of the writes: a cell ends with what the last write over it puts there, so `LandInv` speaks of
those still to come as well as of the ROM (`LandsIn`, and `LandsLastIn` for literals that several stores share). It
holds when the list of writes is made because writes for different things do not overlap (`PutsApart`: a
store is not in a literal, both end before the appended code, the activations follow each other behind it), and every
write keeps it. `JumpsLand` and `PatchesArrive` say what is left when no write is to come.

*RomInfo.* A game's settings are in five places; `GamesInv` says what each may hold: the list in
memory is the list on the card wherever the menu runs, a row that was read and the copy of the window
are entries of their own game, each row of the window has one of its texts selected. Then OK keeps
what the rows showed through the packed flags (`OkKeeps`), and an update changes what is looked up for
its game only (`UpdatedList`). `RowsFresh` speaks of the list window; over the others it needs
`FreshInv`: one row of the game is as the list says, or the copy is and the game's row will
take it back. For the cheats, `CheatsInv` has the bytes and what the open window has marked: of a
folder with one code in use at most one (`Valid`), which the parser (`ParsedValid`) and A
(`ToggledValid`) keep, and then what is written is read back (`WrittenParsed`). The rows are inserted
in a loop; what a loop inserts is shown by counting (`Counting`, `InsertedRows`), with sets
where an induction would have a predicate.
`RowShown` needs `ShownInv`: which window is open over which, since each shows its row again when
those over it close, and every tab keeps its own first row. For lists it rests on `PickedShown` and
`FilledShown`; the language window selects its row before the rows behind it are inserted
(`LanguageBoxShown`), so the list is still short when it scrolls.
`SettingsKept` goes through four laws. Of the INI file (`IsFile`: any lines, also
broken headers, comments, items given twice): what is put is read and every other item stays
(`SectionFound`, `SetReads`, `PutAs`), and a load that drops comments reads the same (`LoadedReads`, by
`Counting`: the lines kept are in order and all there). Of a setting: what is spelled is read back
(`SpelledMeans`) and whatever a start makes of an item can be spelled (`MeaningIsStable`); the
exception is an empty name, which is not added to a file. Of the whole save: the loop over the items
leaves in the file what `gs()` has (`SavedReads`). Of the window: the row asked for a setting is its own
on every console (`RowsFound`), and each text is read back as the one shown (`Faithfully`).
`SettledInv` joins them: the file says what was confirmed and `gs()` has it, under safe mode too; a window that can save
has texts of its rows, and no name it would save is empty unless the file's is.

Assumptions are the named `ASSUME`s of the modules: sizes that divide each
other, devices and rows that are distinct names, view modes of at least two rows (the source has four or
more), a tree of folders in which nothing is below itself, and, from the
constructor of `cMainList`, a top menu that begins with a card and has both lists, and, of the
settings, that those of the start are among those followed and all of them are saved ones, that the files
installed are lines and directories have names, and that a list shows a row; and, of the patcher, what § GbaPatch
lists. They are evaluated in every run.

## 6. What is only model-checked

Liveness and fairness (`MusicGoesOn`, `MenuComes`, `Ends`) are out of the
prover's reach, as is `ENABLED`. `SourceAsPromised`, the only invariant without a theorem, says what a
recursive definition, the decoder over a file, computes: an induction over data, which `Counting` could carry only
where the recursion is over a number and each step has a set to speak of. What other functions
compute from their input (drawing, fonts, NAND reads, plugins) is compared with reference
definitions in the assumptions of the runs.

## 7. Plan

Done, in this order: music, launch, ARM7, DSiWare, browser, windows (what runs
concurrently or must survive a power cut, and what many handlers share); then
GBA saves and patches, and the settings of the menu and of games.

Then the functions these call: drawing, covers, the upper screen with its vertical
blank, fonts, the boot loader, signals, reads of the NAND, plugins.

What could follow: the controls one by one (`form.cpp`, `popmenu.cpp`,
`spinbox.cpp`), of which `WindowManager` has the input.
`saves/ROMList.cpp`, 6,817 lines, is a table of data without behaviour.
