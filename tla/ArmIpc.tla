------------------------------- MODULE ArmIpc -------------------------------
(***************************************************************************)
(* The two processors of the console.  ARM9 runs the menu; ARM7 owns the   *)
(* backlight, the power and I2C chips, the mixer and the NAND controller,  *)
(* and serves ARM9 over three channels:                                    *)
(*   - libnds value FIFOs: a message on FIFO_USER_01, its answer on        *)
(*     FIFO_USER_01 or FIFO_USER_02, with nothing that says which question *)
(*     an answer is for (arm7 menuValue32Handler, arm7 main);              *)
(*   - a command word in shared memory and an IPC sync interrupt           *)
(*     (nand/nandio.c, arm7 nandSyncHandler);                              *)
(*   - a word that ARM7's main loop polls (0x02FFFD0C: 'CMME', 'GCID').    *)
(* ARM9 is one thread that waits for each answer.  ARM7 has a main loop    *)
(* and interrupt handlers that come between any two of its steps.          *)
(***************************************************************************)
EXTENDS Naturals, Sequences

CONSTANTS Consoles,     \* [dsi, is3DS, locked, sd, debug: BOOLEAN, system: 1..3]
          SavedLevels,  \* brightness as backlight.ini may hold it
          FirstLights   \* the backlight when the console is switched on

Brightness == 0 .. 3

ASSUME ConsoleAssumption ==
    /\ Consoles \subseteq [dsi: BOOLEAN, is3DS: BOOLEAN, locked: BOOLEAN,
                           sd: BOOLEAN, debug: BOOLEAN, system: 1 .. 3]
    /\ SavedLevels \subseteq Nat /\ FirstLights \subseteq Brightness

VARIABLES console,      \* the machine and gs().debug: never change
          pc9, ret,     \* where ARM9 is; where mountNand's caller goes on
          asked, told,  \* the question ARM9 waits on; the answer just taken
          mounted,      \* mountNand: static nandMounted
          maxmod,       \* _maxmodInitialized
          level,        \* gs().brightness
          pc7,          \* where ARM7's main() is
          requested,    \* maxmodInstallRequested
          installed,    \* maxmodInstalled
          resetPico,    \* reset_pico
          light,        \* the backlight's level
          toArm7,       \* FIFO_USER_01 towards ARM7
          toArm9,       \* FIFO_USER_01 and FIFO_USER_02 towards ARM9
          listening,    \* menuValue32Handler is set
          syncOn,       \* ARM7's IPC sync interrupt is enabled
          syncIf,       \* and pending
          scfg,         \* 0x02FFFDF0: REG_SCFG_EXT as ARM7 left it
          block,        \* shared[3], the NAND command block's command or result
          word, address,\* 0x02FFFD0C and 0x02FFFD08
          cid,          \* the eMMC CID is at 0x02FFD7BC
          bankC         \* what VRAM bank C holds and whose it is

menu   == <<mounted, maxmod, level>>
arm9   == <<pc9, ret, asked, told, menu>>
arm7   == <<pc7, requested, installed, resetPico, light>>
wires  == <<toArm7, toArm9, listening, syncOn, syncIf>>
memory == <<scfg, block, word, address, cid, bankC>>
vars   == <<console, arm9, arm7, wires, memory>>

-----------------------------------------------------------------------------
SetMessage == <<"SET0", "SET1", "SET2", "SET3">>    \* MENU_MSG_BRIGHTNESS_SET0 + n
SetMessages == {SetMessage[i] : i \in 1 .. 4}
LevelSet(m) == CHOOSE n \in Brightness : SetMessage[n + 1] = m

Questions == {"SYSTEM", "BRIGHTNESS_GET", "IS_SD_INSERTED", "IS_3DS", "MAXMOD_INSTALL"}
Orders == SetMessages \cup {"REBOOT_PICOLOADER", "UNLAUNCH_BOOT", "GBA"}
Channels == {"USER_01", "USER_02"}
NoQuestion == [msg |-> "none", on |-> "USER_01", next |-> "menu"]

NandCommands == {"HVSD", "NAST", "NARD"}
Places9 == {"fs", "settings", "debug", "debug3ds", "donors", "donors3ds", "askcid",
            "waitcid", "music", "musicon", "menu", "setlevel", "launched", "unlaunch",
            "configure", "havesd", "start", "sector0", "nandcid", "cidwait", "gcid",
            "gcidword", "gcidwait", "files", "reading", "pico", "handover", "jump",
            "wait", "pico9", "ran", "gone"}

TypeOK ==
    /\ console \in Consoles
    /\ pc9 \in Places9 /\ ret \in {"askcid", "ran"}
    /\ asked \in [msg: Questions \cup {"none"}, on: Channels, next: Places9]
    /\ told \in 0 .. 32
    /\ mounted \in BOOLEAN /\ maxmod \in BOOLEAN /\ level \in Nat
    /\ pc7 \in {"share", "service", "handlers", "test", "clear", "install",
                "answer", "cid", "gcid", "sleep", "reset", "sleep2", "pico7", "off"}
    /\ requested \in BOOLEAN /\ installed \in BOOLEAN /\ resetPico \in BOOLEAN
    /\ light \in Brightness
    /\ toArm7 \in Seq(Questions \cup Orders)
    /\ toArm9 \in [Channels -> Seq(0 .. 32)]
    /\ listening \in BOOLEAN /\ syncOn \in BOOLEAN /\ syncIf \in BOOLEAN
    /\ scfg \in {"unset", "locked", "open"}
    /\ block \in NandCommands \cup {"zero", "nonzero"}
    /\ word \in {"zero", "CMME", "GCID", "GCER"}
    /\ address \in {"none", "crypt_buf"}
    /\ cid \in BOOLEAN
    /\ bankC \in {"picture", "loader", "loader7"}

-----------------------------------------------------------------------------
(* What ARM7 knows. *)
BrightnessGet == IF console.system = 1 THEN 0 ELSE light   \* not a DS Lite: 0
CheckSD == IF console.sd THEN 32 ELSE 0
Check3DS == IF console.dsi /\ console.is3DS THEN 1 ELSE 0

(* ARM9's ways to ask. *)
Send(m) == toArm7' = Append(toArm7, m)

Ask(m, channel, next) ==
    /\ Send(m)
    /\ pc9' = "wait"
    /\ asked' = [msg |-> m, on |-> channel, next |-> next]
    /\ told' = 0
    /\ UNCHANGED <<console, ret, menu, arm7, toArm9, listening, syncOn,
                   syncIf, memory>>

\* IPC_SendSync: the interrupt is raised at ARM7 only where it is enabled.
SendSync == syncIf' = (syncIf \/ syncOn)

Command(c, next) ==
    /\ block' = c
    /\ SendSync
    /\ pc9' = next
    /\ UNCHANGED <<console, ret, asked, told, menu, arm7, toArm7, toArm9,
                   listening, syncOn, scfg, word, address, cid, bankC>>

Go(next) ==
    /\ pc9' = next
    /\ told' = 0
    /\ UNCHANGED <<console, ret, asked, menu, arm7, wires, memory>>

\* fifoWaitValue32, fifoGetValue32
TakeAnswer ==
    /\ pc9 = "wait"
    /\ toArm9[asked.on] # <<>>
    /\ told' = Head(toArm9[asked.on])
    /\ toArm9' = [toArm9 EXCEPT ![asked.on] = Tail(@)]
    /\ pc9' = asked.next
    /\ asked' = NoQuestion
    /\ UNCHANGED <<console, ret, menu, arm7, toArm7, listening, syncOn, syncIf, memory>>

-----------------------------------------------------------------------------
(* ARM9, from main() on. *)

CheckSDInserted == pc9 = "fs" /\ Ask("IS_SD_INSERTED", "USER_01", "settings")

\* cGlobalSettings::setBrightness: an order, no answer
SetBrightness(l, next) ==
    /\ Send(SetMessage[(l % 4) + 1])
    /\ level' = l
    /\ pc9' = next /\ told' = 0
    /\ UNCHANGED <<console, ret, asked, mounted, maxmod, arm7, toArm9,
                   listening, syncOn, syncIf, memory>>

LoadSettings == pc9 = "settings" /\ \E l \in SavedLevels : SetBrightness(l, "debug")

DebugSystem ==
    \/ pc9 = "debug" /\ console.debug /\ Ask("SYSTEM", "USER_02", "debug3ds")
    \/ pc9 = "debug" /\ ~console.debug /\ Go("donors")

DebugIs3DS == pc9 = "debug3ds" /\ Ask("IS_3DS", "USER_01", "donors")

InitDonors ==
    /\ pc9 = "donors"
    /\ IF ~console.dsi \/ scfg # "locked" THEN Go("askcid")
       ELSE Ask("IS_3DS", "USER_01", "donors3ds")

DonorsIs3DS ==
    /\ pc9 = "donors3ds"
    /\ pc9' = IF told # 0 THEN "askcid" ELSE "configure"
    /\ ret' = "askcid" /\ told' = 0
    /\ UNCHANGED <<console, asked, menu, arm7, wires, memory>>

\* main(): the eMMC CID, wanted by the games; outside DSi mode the address
\* is no memory and reads as zero.
AskCid ==
    /\ pc9 = "askcid"
    /\ pc9' = "waitcid"
    /\ word' = IF console.dsi THEN "CMME" ELSE word
    /\ UNCHANGED <<console, ret, asked, told, menu, arm7, wires, scfg, block,
                   address, cid, bankC>>

CidTold == pc9 = "waitcid" /\ (console.dsi => word = "zero") /\ Go("music")

\* cThemeMusic::start: no music file, or the mixer is there already
StartMusic ==
    /\ pc9 = "music"
    /\ \/ Go("menu")
       \/ ~maxmod /\ Ask("MAXMOD_INSTALL", "USER_01", "musicon")

MusicStarted ==
    /\ pc9 = "musicon"
    /\ maxmod' = (told = 1)
    /\ pc9' = "menu" /\ told' = 0
    /\ UNCHANGED <<console, ret, asked, mounted, level, arm7, wires, memory>>

NextBrightness == pc9 = "menu" /\ Ask("BRIGHTNESS_GET", "USER_01", "setlevel")
LevelTold == pc9 = "setlevel" /\ SetBrightness((told + 1) % 4, "menu")

\* NdsBootstrapLauncher::is3DS in prepareIni, then configureNdsBootstrapDonors
LaunchBootstrap(from) ==
    /\ pc9 = from
    /\ IF console.dsi THEN Ask("IS_3DS", "USER_01", "launched") ELSE Go("launched")

ConfigureForLaunch ==
    /\ pc9 = "launched"
    /\ pc9' = "configure" /\ ret' = "ran" /\ told' = 0
    /\ UNCHANGED <<console, asked, menu, arm7, wires, memory>>

LaunchUnlaunch ==
    /\ pc9 = "menu" /\ console.dsi /\ scfg # "locked"
    /\ Ask("IS_3DS", "USER_01", "unlaunch")

Order(m, next) ==
    /\ Send(m)
    /\ pc9' = next
    /\ UNCHANGED <<console, ret, asked, told, menu, arm7, toArm9, listening,
                   syncOn, syncIf, memory>>

BootUnlaunch == pc9 = "unlaunch" /\ told = 0 /\ Order("UNLAUNCH_BOOT", "gone")

BootGBA == pc9 = "menu" /\ ~console.dsi /\ Order("GBA", "gone")

\* the launcher has the machine, or failed and the menu's music starts again
LaunchRan == pc9 = "ran" /\ (Go("gone") \/ Go("music"))

-----------------------------------------------------------------------------
(* ARM9: mountNand, nandio_startup and the reads of the NAND's files.  A    *)
(* read of a file stands for all of them.                                   *)

Configure ==
    /\ pc9 = "configure"
    /\ \/ Go(ret)                                      \* no NAND path to look at
       \/ mounted /\ Go("files")
       \/ console.dsi /\ ~mounted /\ Command("HVSD", "havesd")

HaveSD ==
    /\ pc9 = "havesd" /\ block # "HVSD"
    /\ IF block = "zero" THEN Go(ret) ELSE Command("NAST", "start")

NandStarted ==
    /\ pc9 = "start" /\ block # "NAST"
    /\ IF block # "zero" THEN Go(ret) ELSE Command("NARD", "sector0")

Sector0Read ==
    /\ pc9 = "sector0" /\ block # "NARD"
    /\ IF block # "zero" THEN Go(ret) ELSE Go(IF cid THEN "gcid" ELSE "nandcid")

NandAskCid ==
    /\ pc9 = "nandcid"
    /\ word' = "CMME"
    /\ pc9' = "cidwait"
    /\ UNCHANGED <<console, ret, asked, told, menu, arm7, wires, scfg, block,
                   address, cid, bankC>>

NandCidTold == pc9 = "cidwait" /\ word = "zero" /\ Go("gcid")

\* getConsoleID: first the address of the buffer, then the command
GiveBuffer ==
    /\ pc9 = "gcid"
    /\ address' = "crypt_buf"
    /\ pc9' = "gcidword"
    /\ UNCHANGED <<console, ret, asked, told, menu, arm7, wires, scfg, block,
                   word, cid, bankC>>

AskConsoleId ==
    /\ pc9 = "gcidword"
    /\ word' = "GCID"
    /\ pc9' = "gcidwait"
    /\ UNCHANGED <<console, ret, asked, told, menu, arm7, wires, scfg, block,
                   address, cid, bankC>>

\* dsi_crypt_init; the decrypted MBR may be no MBR
ConsoleIdTold ==
    /\ pc9 = "gcidwait" /\ word # "GCID"
    /\ \/ Go(ret)
       \/ /\ word = "zero"
          /\ mounted' = TRUE
          /\ pc9' = "files"
          /\ UNCHANGED <<console, ret, asked, told, maxmod, level, arm7, wires, memory>>

ReadFiles == pc9 = "files" /\ Command("NARD", "reading")
FilesRead == pc9 = "reading" /\ block # "NARD" /\ Go(ret)

-----------------------------------------------------------------------------
(* ARM9: handing both processors over to Pico-Loader. *)

LoadPico ==
    /\ pc9 = "menu"
    /\ bankC' = "loader"
    /\ pc9' = "handover"
    /\ UNCHANGED <<console, ret, asked, told, menu, arm7, wires, scfg, block,
                   word, address, cid>>

\* mutant: the bank is not switched
KeepBankC ==
    /\ pc9 = "handover"
    /\ pc9' = "pico"
    /\ UNCHANGED <<console, ret, asked, told, menu, arm7, wires, memory>>
GiveBankC ==
    /\ pc9 = "handover"
    /\ bankC' = "loader7"
    /\ pc9' = "pico"
    /\ UNCHANGED <<console, ret, asked, told, menu, arm7, wires, scfg, block,
                   word, address, cid>>

RebootPico == pc9 = "pico" /\ Order("REBOOT_PICOLOADER", "jump")
\* mutant: ARM9 waits for ARM7 to answer first
JumpPico9 == pc9 = "jump" /\ Go("pico9")

Arm9Next ==
    \/ CheckSDInserted \/ LoadSettings \/ DebugSystem \/ DebugIs3DS
    \/ InitDonors \/ DonorsIs3DS \/ AskCid \/ CidTold \/ StartMusic \/ MusicStarted
    \/ NextBrightness \/ LevelTold \/ LaunchBootstrap("menu") \/ ConfigureForLaunch
    \/ LaunchRan \/ LaunchUnlaunch \/ BootUnlaunch
    \/ pc9 = "unlaunch" /\ told # 0 /\ LaunchBootstrap("unlaunch")
    \/ BootGBA \/ TakeAnswer
    \/ Configure \/ HaveSD \/ NandStarted \/ Sector0Read \/ NandAskCid \/ NandCidTold
    \/ GiveBuffer \/ AskConsoleId \/ ConsoleIdTold \/ ReadFiles \/ FilesRead
    \/ LoadPico \/ GiveBankC \/ RebootPico \/ JumpPico9

-----------------------------------------------------------------------------
(* ARM7: start-up, main loop and interrupts. *)

\* mutant: scfg_init() after the handlers
ShareLast == <<"service", "handlers", "share", "test">>
StartOrder == <<"share", "service", "handlers", "test">>

Start7(step) ==
    \E i \in 1 .. 3 :
        /\ pc7 = step /\ StartOrder[i] = step
        /\ pc7' = StartOrder[i + 1]
        /\ UNCHANGED <<console, arm9, requested, installed, resetPico, light>>

Arm7Share ==
    /\ Start7("share")
    /\ scfg' = IF console.locked THEN "locked" ELSE "open"
    /\ UNCHANGED <<wires, block, word, address, cid, bankC>>

\* initializeNandService
Arm7Service ==
    /\ Start7("service")
    /\ syncOn' = console.dsi
    /\ UNCHANGED <<toArm7, toArm9, listening, syncIf, memory>>

\* fifoSetValue32Handler: what came before is handled now
Arm7Handlers ==
    /\ Start7("handlers")
    /\ listening' = TRUE
    /\ UNCHANGED <<toArm7, toArm9, syncOn, syncIf, memory>>

Running7 == pc7 \notin {"pico7", "off"}

Reply(channel, v) == toArm9' = [toArm9 EXCEPT ![channel] = Append(@, v)]

Step7(next) == pc7' = next /\ UNCHANGED <<console, arm9, light, resetPico>>

TestRequest ==
    /\ pc7 = "test"
    /\ Step7(IF requested THEN "clear" ELSE "cid")
    /\ UNCHANGED <<requested, installed, wires, memory>>

\* mutant: the request is not cleared
KeepRequest ==
    /\ pc7 = "clear"
    /\ Step7("install")
    /\ UNCHANGED <<requested, installed, wires, memory>>
ClearRequest ==
    /\ pc7 = "clear"
    /\ requested' = FALSE
    /\ Step7("install")
    /\ UNCHANGED <<installed, wires, memory>>

InstallMaxmod ==
    /\ pc7 = "install"
    /\ installed' = TRUE
    /\ Step7("answer")
    /\ UNCHANGED <<requested, wires, memory>>

AnswerRequest ==
    /\ pc7 = "answer"
    /\ Reply("USER_01", 1)
    /\ Step7("cid")
    /\ UNCHANGED <<requested, installed, toArm7, listening, syncOn, syncIf, memory>>

PollCid ==
    /\ pc7 = "cid"
    /\ cid' = (cid \/ word = "CMME")
    /\ word' = IF word = "CMME" THEN "zero" ELSE word
    /\ Step7("gcid")
    /\ UNCHANGED <<requested, installed, wires, scfg, block, address, bankC>>

\* mutant: a key search that fails is not reported
PollConsoleIdSilently ==
    /\ pc7 = "gcid"
    /\ IF console.dsi /\ word = "GCID"
       THEN \E found \in BOOLEAN : word' = IF found THEN "zero" ELSE word
       ELSE UNCHANGED word
    /\ Step7("sleep")
    /\ UNCHANGED <<requested, installed, wires, scfg, block, address, cid, bankC>>
\* pollNandConsoleIdRequest; the key search succeeds or not
PollConsoleId ==
    /\ pc7 = "gcid"
    /\ IF console.dsi /\ word = "GCID"
       THEN \E found \in BOOLEAN : word' = IF found THEN "zero" ELSE "GCER"
       ELSE UNCHANGED word
    /\ Step7("sleep")
    /\ UNCHANGED <<requested, installed, wires, scfg, block, address, cid, bankC>>

Sleep ==
    \/ pc7 = "sleep" /\ Step7("reset") /\ UNCHANGED <<requested, installed, wires, memory>>
    \/ pc7 = "sleep2" /\ Step7("test") /\ UNCHANGED <<requested, installed, wires, memory>>

\* resetDSPico jumps to the loader in VRAM bank C
TestReset ==
    /\ pc7 = "reset"
    /\ Step7(IF resetPico THEN "pico7" ELSE "sleep2")
    /\ UNCHANGED <<requested, installed, wires, memory>>

\* menuValue32Handler: the FIFO interrupt, for the message at the head
Receive(m) ==
    /\ listening /\ Running7
    /\ toArm7 # <<>> /\ m = Head(toArm7)
    /\ toArm7' = Tail(toArm7)
    /\ UNCHANGED <<console, arm9, listening, syncOn, syncIf, memory, installed>>

\* The questions answered in the interrupt itself
ImmediateAnswer ==
    \/ Receive("SYSTEM") /\ Reply("USER_02", console.system)
    \/ Receive("BRIGHTNESS_GET") /\ Reply("USER_01", BrightnessGet)
    \/ Receive("IS_SD_INSERTED") /\ Reply("USER_01", CheckSD)
    \/ Receive("IS_3DS") /\ Reply("USER_01", Check3DS)

HandleQuestion == ImmediateAnswer /\ UNCHANGED <<pc7, requested, resetPico, light>>

HandleMaxmodInstall ==
    /\ Receive("MAXMOD_INSTALL")
    /\ IF installed THEN Reply("USER_01", 1) /\ UNCHANGED requested
       ELSE requested' = TRUE /\ UNCHANGED toArm9
    /\ UNCHANGED <<pc7, resetPico, light>>

HandleSet ==
    \E m \in SetMessages :
        /\ Receive(m)
        /\ light' = IF console.system = 1 THEN light ELSE LevelSet(m)
        /\ UNCHANGED <<pc7, requested, resetPico, toArm9>>

HandleRebootPico ==
    /\ Receive("REBOOT_PICOLOADER")
    /\ resetPico' = TRUE
    /\ UNCHANGED <<pc7, requested, light, toArm9>>

\* the console restarts, or runs the GBA cartridge
HandleLast ==
    /\ Receive("UNLAUNCH_BOOT") \/ Receive("GBA")
    /\ pc7' = "off"
    /\ UNCHANGED <<requested, resetPico, light, toArm9>>

\* nandSyncHandler: any other word is no command and stays
HandleSync ==
    /\ syncOn /\ syncIf /\ Running7
    /\ syncIf' = FALSE
    /\ IF block \in NandCommands
       THEN \E result \in {"zero", "nonzero"} : block' = result
       ELSE UNCHANGED block
    /\ UNCHANGED <<console, arm9, arm7, toArm7, toArm9, listening, syncOn, scfg,
                   word, address, cid, bankC>>

Arm7Main == \/ Arm7Share \/ Arm7Service \/ Arm7Handlers
            \/ TestRequest \/ ClearRequest \/ InstallMaxmod \/ AnswerRequest
            \/ PollCid \/ PollConsoleId \/ Sleep \/ TestReset

Fifo7 == \/ HandleQuestion \/ HandleMaxmodInstall \/ HandleSet
         \/ HandleRebootPico \/ HandleLast

-----------------------------------------------------------------------------
Init ==
    /\ console \in Consoles
    /\ pc9 = "fs" /\ ret = "askcid" /\ asked = NoQuestion /\ told = 0
    /\ mounted = FALSE /\ maxmod = FALSE /\ level = 0
    /\ pc7 = StartOrder[1] /\ requested = FALSE /\ installed = FALSE /\ resetPico = FALSE
    /\ light \in FirstLights
    /\ toArm7 = <<>> /\ toArm9 = [c \in Channels |-> <<>>]
    /\ listening = FALSE /\ syncOn = FALSE /\ syncIf = FALSE
    /\ scfg = "unset" /\ block = "zero" /\ word = "zero" /\ address = "none"
    /\ cid \in BOOLEAN /\ bankC = "picture"

Next == Arm9Next \/ Arm7Main \/ Fifo7 \/ HandleSync

Spec == Init /\ [][Next]_vars

\* ARM9, ARM7's loop and its interrupts are hardware: none of them stops.
FairSpec == Spec /\ WF_vars(Arm9Next) /\ WF_vars(Arm7Main)
                 /\ WF_vars(Fifo7) /\ WF_vars(HandleSync)

-----------------------------------------------------------------------------
(* Properties. *)

Truth(m) == CASE m = "SYSTEM" -> console.system
              [] m = "BRIGHTNESS_GET" -> BrightnessGet
              [] m = "IS_SD_INSERTED" -> CheckSD
              [] m = "IS_3DS" -> Check3DS
              [] OTHER -> IF installed THEN 1 ELSE 0

\* An answer in a FIFO says nothing of its question.  It is nevertheless the
\* true answer to the question ARM9 waits with, on the channel it waits on;
\* for the mixer it comes only once mmInstall has run.
AnswerFits ==
    \A c \in Channels : \A i \in 1 .. Len(toArm9[c]) :
        /\ pc9 = "wait" /\ c = asked.on
        /\ toArm9[c][i] = Truth(asked.msg)

\* A question is in exactly one place: last in the FIFO, kept in
\* maxmodInstallRequested, in the main loop's hands, or answered.  So none is
\* lost between interrupt and loop, and none is answered twice.
Stages == {"queued", "requested", "loop", "answered"}
Holds(stage) ==
    CASE stage = "queued" -> \E i \in 1 .. Len(toArm7) : toArm7[i] \in Questions
      [] stage = "requested" -> requested
      [] stage = "loop" -> pc7 \in {"install", "answer"}
      [] OTHER -> \E c \in Channels : toArm9[c] # <<>>

OneAnswer ==
    /\ (pc9 = "wait") <=> \E stage \in Stages : Holds(stage)
    /\ \A s, t \in Stages : Holds(s) /\ Holds(t) => s = t
    /\ \A i \in 1 .. Len(toArm7) : toArm7[i] \in Questions =>
            i = Len(toArm7) /\ toArm7[i] = asked.msg
    /\ Len(toArm9["USER_01"]) + Len(toArm9["USER_02"]) <= 1

\* So every question of the menu gets one answer, its own.
AnswersPaired == AnswerFits /\ OneAnswer

\* What the processors share is written before it is read.  A NAND command
\* stands in the block only while its interrupt is pending: ARM9 never raises
\* it before initializeNandService has enabled it.  ARM7 has shared its SCFG
\* before ARM9 decides by it whether the console is restricted (no code waits
\* for that: the question to the card does).  The NAND's key is made from the
\* CID and the console ID: when ARM9 asks for the console ID, the CID is there
\* and ARM7 knows the buffer.
CommandHeard == block \in NandCommands => syncIf
ScfgShared == pc9 \notin {"fs", "wait"} => scfg # "unset"
CryptoReady == word = "GCID" => cid /\ address = "crypt_buf"
SharedInOrder == CommandHeard /\ ScfgShared /\ CryptoReady

\* ARM7 runs the loader in VRAM bank C only after the bank is ARM7's.
HandedOver == pc7 = "pico7" => bankC = "loader7" /\ pc9 \in {"jump", "pico9"}

\* The start of the menu ends, whatever the NAND and the key search say: every
\* question, command and mailbox word on the way is answered.
MenuComes == <>(pc9 = "menu")
=============================================================================
