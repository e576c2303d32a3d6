---------------------------- MODULE ArmIpcProofs ----------------------------
(***************************************************************************)
(* The two processors, for every set of consoles, every brightness in the  *)
(* settings and every order in which main loops and interrupts come: each  *)
(* question gets its own answer, what they share is written before it is   *)
(* read, and ARM7 runs the loader only from a bank that is its own.        *)
(***************************************************************************)
EXTENDS ArmIpc, SequenceTheorems, TLAPS

LEMMA Levels ==
    /\ SetMessages = {"SET0", "SET1", "SET2", "SET3"}
    /\ \A l \in Nat : SetMessage[(l % 4) + 1] \in SetMessages
    /\ \A m \in SetMessages : LevelSet(m) \in Brightness
<1>1. SetMessages = {"SET0", "SET1", "SET2", "SET3"}
  BY DEF SetMessages, SetMessage
<1>2. ASSUME NEW l \in Nat PROVE SetMessage[(l % 4) + 1] \in SetMessages
  <2> DEFINE k == l % 4
  <2>1. k \in 0 .. 3
    OBVIOUS
  <2> HIDE DEF k
  <2>2. k + 1 \in 1 .. 4
    BY <2>1
  <2>3. SetMessage[k + 1] \in SetMessages
    BY <2>2 DEF SetMessages
  <2> QED
    BY <2>3 DEF k
<1>3. ASSUME NEW m \in SetMessages PROVE LevelSet(m) \in Brightness
  <2>1. PICK i \in 1 .. 4 : m = SetMessage[i]
    BY DEF SetMessages
  <2>2. i - 1 \in Brightness /\ SetMessage[(i - 1) + 1] = m
    BY <2>1 DEF Brightness
  <2>3. \E n \in Brightness : SetMessage[n + 1] = m
    BY <2>2
  <2> QED
    BY <2>3 DEF LevelSet
<1> QED
  BY <1>1, <1>2, <1>3

LEMMA Truths ==
    ASSUME console \in Consoles, light \in Brightness
    PROVE  /\ console.system \in 0 .. 32 /\ BrightnessGet \in 0 .. 32
           /\ CheckSD \in 0 .. 32 /\ Check3DS \in 0 .. 32
<1>1. console.system \in 1 .. 3
  BY ConsoleAssumption
<1> QED
  BY <1>1 DEF BrightnessGet, CheckSD, Check3DS, Brightness

Messages == Questions \cup Orders

LEMMA TypeInit == Init => TypeOK
<1> SUFFICES ASSUME Init PROVE TypeOK
  OBVIOUS
<1>1. toArm7 \in Seq(Questions \cup Orders) /\ toArm9 \in [Channels -> Seq(0 .. 32)]
  BY DEF Init
<1>2. light \in Brightness
  BY ConsoleAssumption DEF Init
<1>3. asked \in [msg: Questions \cup {"none"}, on: Channels, next: Places9]
  BY DEF Init, NoQuestion, Channels, Places9
<1>4. pc9 \in Places9 /\ ret \in {"askcid", "ran"} /\ told \in 0 .. 32 /\ level \in Nat
  BY DEF Init, Places9
<1> QED
  BY <1>1, <1>2, <1>3, <1>4 DEF Init, TypeOK, StartOrder

\* A step of ARM9 leaves the variables of ARM7 and what it has said alone.
LEMMA Arm9Leaves == Arm9Next => UNCHANGED <<console, arm7, listening, syncOn, scfg, cid>>
BY DEF Arm9Next, CheckSDInserted, LoadSettings, DebugSystem, DebugIs3DS, InitDonors,
       DonorsIs3DS, AskCid, CidTold, StartMusic, MusicStarted, NextBrightness, LevelTold,
       LaunchBootstrap, ConfigureForLaunch, LaunchRan, LaunchUnlaunch, BootUnlaunch,
       BootGBA, TakeAnswer, Configure, HaveSD, NandStarted, Sector0Read, NandAskCid,
       NandCidTold, GiveBuffer, AskConsoleId, ConsoleIdTold, ReadFiles, FilesRead,
       LoadPico, GiveBankC, RebootPico, JumpPico9, Ask, Go, Order, Command,
       SetBrightness, Send, SendSync, arm7, wires, memory

ChannelOf(m) == IF m = "SYSTEM" THEN "USER_02" ELSE "USER_01"

\* Where ARM9 goes on with an answer.
AnswerPlaces == {"settings", "debug3ds", "donors", "donors3ds", "musicon", "setlevel",
                 "launched", "unlaunch"}

\* ARM9 asks, orders, takes its answer, or leaves the FIFOs alone.
Asks ==
    \E m \in Questions, next \in AnswerPlaces :
        pc9 # "wait" /\ Ask(m, ChannelOf(m), next)
Orders9 ==
    \E m \in Orders :
        /\ pc9 \notin {"fs", "wait", "jump", "pico9"} /\ pc9' \in Places9 \ {"wait"} /\ Send(m)
        /\ m = "REBOOT_PICOLOADER" => pc9 = "pico" /\ pc9' = "jump"
        /\ UNCHANGED <<asked, toArm9, syncIf, block, word, address, bankC, mounted>>
Silent9 ==
    /\ pc9 \notin {"fs", "wait"} /\ pc9' \in Places9 \ {"wait"}
    /\ UNCHANGED <<asked, toArm7, toArm9>>

LEMMA Arm9Steps ==
    ASSUME TypeOK, Arm9Next
    PROVE  Asks \/ Orders9 \/ TakeAnswer \/ Silent9
<1> USE DEF Questions, Places9, ChannelOf, AnswerPlaces
<1>1. ret \in {"askcid", "ran"}
  BY DEF TypeOK
<1>2. CASE CheckSDInserted  BY <1>2 DEF CheckSDInserted, Asks
<1>3. CASE LoadSettings \/ LevelTold
  <2>1. PICK l \in Nat, next \in {"debug", "menu"} :
            SetBrightness(l, next) /\ pc9 \in {"settings", "setlevel"}
    <3>1. (told + 1) % 4 \in Nat
      BY DEF TypeOK
    <3>2. SavedLevels \subseteq Nat
      BY ConsoleAssumption
    <3> QED
      BY <1>3, <3>1, <3>2 DEF LoadSettings, LevelTold
  <2>2. SetMessage[(l % 4) + 1] \in Orders /\ SetMessage[(l % 4) + 1] # "REBOOT_PICOLOADER"
    BY Levels DEF Orders
  <2> QED
    BY <2>1, <2>2 DEF SetBrightness, Orders9, memory
<1>4. CASE DebugSystem  BY <1>4 DEF DebugSystem, Asks, Silent9, Go, wires
<1>5. CASE DebugIs3DS  BY <1>5 DEF DebugIs3DS, Asks
<1>6. CASE InitDonors  BY <1>6 DEF InitDonors, Asks, Silent9, Go, wires
<1>7. CASE DonorsIs3DS \/ AskCid \/ CidTold \/ MusicStarted \/ ConfigureForLaunch \/ LaunchRan
  BY <1>7 DEF DonorsIs3DS, AskCid, CidTold, MusicStarted, ConfigureForLaunch, LaunchRan,
              Silent9, Go, wires
<1>8. CASE StartMusic  BY <1>8 DEF StartMusic, Asks, Silent9, Go, wires
<1>9. CASE NextBrightness \/ LaunchUnlaunch
  BY <1>9 DEF NextBrightness, LaunchUnlaunch, Asks
<1>10. CASE LaunchBootstrap("menu") \/ (pc9 = "unlaunch" /\ told # 0 /\ LaunchBootstrap("unlaunch"))
  BY <1>10 DEF LaunchBootstrap, Asks, Silent9, Go, wires
<1>11. CASE BootUnlaunch \/ BootGBA \/ RebootPico
  BY <1>11 DEF BootUnlaunch, BootGBA, RebootPico, Order, Orders9, Orders, menu, memory
<1>12. CASE TakeAnswer  BY <1>12
<1>13. CASE Configure \/ HaveSD \/ NandStarted \/ Sector0Read \/ ReadFiles \/ FilesRead
  BY <1>1, <1>13 DEF Configure, HaveSD, NandStarted, Sector0Read, ReadFiles, FilesRead,
              Silent9, Go, Command, wires
<1>14. CASE NandAskCid \/ NandCidTold \/ GiveBuffer \/ AskConsoleId \/ ConsoleIdTold
            \/ LoadPico \/ GiveBankC \/ JumpPico9
  BY <1>1, <1>14 DEF NandAskCid, NandCidTold, GiveBuffer, AskConsoleId, ConsoleIdTold,
              LoadPico, GiveBankC, JumpPico9, Silent9, Go, wires
<1> QED
  BY <1>2, <1>3, <1>4, <1>5, <1>6, <1>7, <1>8, <1>9, <1>10, <1>11, <1>12, <1>13, <1>14
  DEF Arm9Next

\* What ARM9's steps do to the variables that are neither wires nor ARM7's.
LEMMA Arm9Data ==
    ASSUME TypeOK, Arm9Next
    PROVE  /\ ret' \in {"askcid", "ran"} /\ told' \in 0 .. 32
           /\ mounted' \in BOOLEAN /\ maxmod' \in BOOLEAN /\ level' \in Nat
           /\ syncIf' \in BOOLEAN
           /\ block' \in NandCommands \cup {"zero", "nonzero"}
           /\ word' \in {"zero", "CMME", "GCID", "GCER"}
           /\ address' \in {"none", "crypt_buf"}
           /\ bankC' \in {"picture", "loader", "loader7"}
<1> USE DEF menu, wires, memory, Go, Ask, Order, Command, Send, SendSync, NandCommands
<1> DEFINE Data(r, t, mt, mm, l, s, b, w, a, c) ==
           /\ r \in {"askcid", "ran"} /\ t \in 0 .. 32
           /\ mt \in BOOLEAN /\ mm \in BOOLEAN /\ l \in Nat /\ s \in BOOLEAN
           /\ b \in NandCommands \cup {"zero", "nonzero"}
           /\ w \in {"zero", "CMME", "GCID", "GCER"}
           /\ a \in {"none", "crypt_buf"} /\ c \in {"picture", "loader", "loader7"}
<1>0. /\ Data(ret, told, mounted, maxmod, level, syncIf, block, word, address, bankC)
      /\ syncOn \in BOOLEAN
  BY DEF TypeOK
<1>1. CASE CheckSDInserted  BY <1>0, <1>1 DEF CheckSDInserted
<1>2. CASE DebugSystem  BY <1>0, <1>2 DEF DebugSystem
<1>3. CASE DebugIs3DS  BY <1>0, <1>3 DEF DebugIs3DS
<1>4. CASE InitDonors  BY <1>0, <1>4 DEF InitDonors
<1>5. CASE DonorsIs3DS  BY <1>0, <1>5 DEF DonorsIs3DS
<1>6. CASE AskCid  BY <1>0, <1>6 DEF AskCid
<1>7. CASE CidTold  BY <1>0, <1>7 DEF CidTold
<1>8. CASE StartMusic  BY <1>0, <1>8 DEF StartMusic
<1>9. CASE MusicStarted  BY <1>0, <1>9 DEF MusicStarted
<1>10. CASE NextBrightness  BY <1>0, <1>10 DEF NextBrightness
<1>11. CASE ConfigureForLaunch  BY <1>0, <1>11 DEF ConfigureForLaunch
<1>12. CASE LaunchRan  BY <1>0, <1>12 DEF LaunchRan
<1>13. CASE LaunchUnlaunch  BY <1>0, <1>13 DEF LaunchUnlaunch
<1>14. CASE BootUnlaunch  BY <1>0, <1>14 DEF BootUnlaunch
<1>15. CASE BootGBA  BY <1>0, <1>15 DEF BootGBA
<1>16. CASE Configure  BY <1>0, <1>16 DEF Configure
<1>17. CASE HaveSD  BY <1>0, <1>17 DEF HaveSD
<1>18. CASE NandStarted  BY <1>0, <1>18 DEF NandStarted
<1>19. CASE Sector0Read  BY <1>0, <1>19 DEF Sector0Read
<1>20. CASE NandAskCid  BY <1>0, <1>20 DEF NandAskCid
<1>21. CASE NandCidTold  BY <1>0, <1>21 DEF NandCidTold
<1>22. CASE GiveBuffer  BY <1>0, <1>22 DEF GiveBuffer
<1>23. CASE AskConsoleId  BY <1>0, <1>23 DEF AskConsoleId
<1>24. CASE ConsoleIdTold
  <2>1. CASE Go(ret)  BY <1>0, <2>1
  <2>2. CASE ~Go(ret)
    <3>1. mounted' = TRUE /\ UNCHANGED <<ret, told, maxmod, level, wires, memory>>
      BY <1>24, <2>2 DEF ConsoleIdTold
    <3> QED
      BY <1>0, <3>1
  <2> QED
    BY <2>1, <2>2
<1>25. CASE ReadFiles  BY <1>0, <1>25 DEF ReadFiles
<1>26. CASE FilesRead  BY <1>0, <1>26 DEF FilesRead
<1>27. CASE LoadPico  BY <1>0, <1>27 DEF LoadPico
<1>28. CASE GiveBankC  BY <1>0, <1>28 DEF GiveBankC
<1>29. CASE RebootPico  BY <1>0, <1>29 DEF RebootPico
<1>30. CASE JumpPico9  BY <1>0, <1>30 DEF JumpPico9
<1>31. CASE LaunchBootstrap("menu") \/ (pc9 = "unlaunch" /\ told # 0 /\ LaunchBootstrap("unlaunch"))
  BY <1>0, <1>31 DEF LaunchBootstrap
<1>32. CASE LoadSettings
  BY <1>0, <1>32, ConsoleAssumption DEF LoadSettings, SetBrightness
<1>33. CASE LevelTold
  <2>1. (told + 1) % 4 \in Nat
    BY <1>0
  <2> QED
    BY <1>0, <1>33, <2>1 DEF LevelTold, SetBrightness
<1>34. CASE TakeAnswer
  <2>0. asked.on \in Channels /\ toArm9 \in [Channels -> Seq(0 .. 32)]
    BY DEF TypeOK
  <2> DEFINE q == toArm9[asked.on]
  <2>2. q \in Seq(0 .. 32) /\ q # <<>>
    BY <1>34, <2>0 DEF TakeAnswer
  <2> HIDE DEF q
  <2>3. Head(q) \in 0 .. 32
    BY <2>2, HeadTailProperties
  <2>1. Head(toArm9[asked.on]) \in 0 .. 32
    BY <2>3 DEF q
  <2> QED
    BY <1>0, <1>34, <2>1 DEF TakeAnswer
<1> QED
  BY <1>1, <1>2, <1>3, <1>4, <1>5, <1>6, <1>7, <1>8, <1>9, <1>10, <1>11, <1>12, <1>13, <1>14, <1>15, <1>16, <1>17, <1>18, <1>19, <1>20, <1>21, <1>22, <1>23, <1>24, <1>25, <1>26, <1>27, <1>28, <1>29, <1>30, <1>31, <1>32, <1>33, <1>34
  DEF Arm9Next

LEMMA Arm9Types == TypeOK /\ Arm9Next => TypeOK'
<1> SUFFICES ASSUME TypeOK, Arm9Next PROVE TypeOK'
  OBVIOUS
<1>1. UNCHANGED <<console, arm7, listening, syncOn, scfg, cid>>
  BY Arm9Leaves
<1>2. /\ asked \in [msg: Questions \cup {"none"}, on: Channels, next: Places9]
      /\ toArm7 \in Seq(Messages) /\ toArm9 \in [Channels -> Seq(0 .. 32)]
  BY DEF TypeOK, Messages
<1>3. /\ pc9' \in Places9
      /\ asked' \in [msg: Questions \cup {"none"}, on: Channels, next: Places9]
      /\ toArm7' \in Seq(Messages) /\ toArm9' \in [Channels -> Seq(0 .. 32)]
  <2>1. CASE Asks
    <3>1. PICK m \in Questions, next \in Places9 : Ask(m, ChannelOf(m), next)
      BY <2>1 DEF Asks, AnswerPlaces, Places9
    <3>2. ChannelOf(m) \in Channels /\ m \in Messages
      BY DEF ChannelOf, Channels, Messages
    <3>3. /\ asked' = [msg |-> m, on |-> ChannelOf(m), next |-> next]
          /\ toArm7' = Append(toArm7, m) /\ toArm9' = toArm9 /\ pc9' = "wait"
      BY <3>1 DEF Ask, Send
    <3> QED
      BY <1>2, <3>2, <3>3 DEF Places9
  <2>2. CASE Orders9
    <3>1. PICK m \in Orders : toArm7' = Append(toArm7, m)
      BY <2>2 DEF Orders9, Send
    <3>2. toArm7' \in Seq(Messages)
      BY <1>2, <3>1 DEF Messages
    <3> QED
      BY <1>2, <2>2, <3>2 DEF Orders9
  <2>3. CASE TakeAnswer
    <3>1. /\ toArm9[asked.on] # <<>> /\ pc9' = asked.next /\ asked' = NoQuestion
          /\ toArm9' = [toArm9 EXCEPT ![asked.on] = Tail(@)] /\ toArm7' = toArm7
      BY <2>3 DEF TakeAnswer
    <3>2. Tail(toArm9[asked.on]) \in Seq(0 .. 32)
      BY <1>2, <3>1
    <3>3. NoQuestion \in [msg: Questions \cup {"none"}, on: Channels, next: Places9]
      BY DEF NoQuestion, Channels, Places9
    <3> QED
      BY <1>2, <3>1, <3>2, <3>3
  <2>4. CASE Silent9
    BY <1>2, <2>4 DEF Silent9
  <2> QED
    BY <2>1, <2>2, <2>3, <2>4, Arm9Steps
<1> QED
  BY <1>1, <1>3, Arm9Data DEF TypeOK, arm7, Messages

\* ARM7's loop leaves ARM9, the light and what ARM9 has sent alone.
LEMMA LoopLeaves ==
    Arm7Main => UNCHANGED <<console, arm9, resetPico, light, toArm7, syncIf, block,
                            address, bankC>>
BY DEF Arm7Main, Arm7Share, Arm7Service, Arm7Handlers, TestRequest, ClearRequest,
       InstallMaxmod, AnswerRequest, PollCid, PollConsoleId, Sleep, TestReset, Start7,
       Step7, wires, memory

LEMMA StartSteps ==
    /\ Start7("share") => pc7 = "share" /\ pc7' = "service" /\ UNCHANGED <<requested, installed>>
    /\ Start7("service") => pc7 = "service" /\ pc7' = "handlers"
                            /\ UNCHANGED <<requested, installed>>
    /\ Start7("handlers") => pc7 = "handlers" /\ pc7' = "test"
                             /\ UNCHANGED <<requested, installed>>
BY DEF Start7, StartOrder

LEMMA LoopTypes == TypeOK /\ Arm7Main => TypeOK'
<1> SUFFICES ASSUME TypeOK, Arm7Main PROVE TypeOK'
  OBVIOUS
<1> USE DEF wires, memory, Step7
<1>1. UNCHANGED <<console, arm9, resetPico, light, toArm7, syncIf, block, address, bankC>>
  BY LoopLeaves
<1> DEFINE Places7 == {"share", "service", "handlers", "test", "clear", "install",
                       "answer", "cid", "gcid", "sleep", "reset", "sleep2", "pico7", "off"}
<1>2. /\ pc7 \in Places7 /\ requested \in BOOLEAN /\ installed \in BOOLEAN
      /\ toArm9 \in [Channels -> Seq(0 .. 32)] /\ listening \in BOOLEAN /\ syncOn \in BOOLEAN
      /\ scfg \in {"unset", "locked", "open"} /\ word \in {"zero", "CMME", "GCID", "GCER"}
      /\ cid \in BOOLEAN /\ console.dsi \in BOOLEAN
  BY ConsoleAssumption DEF TypeOK
<1> DEFINE Good == /\ pc7' \in Places7 /\ requested' \in BOOLEAN /\ installed' \in BOOLEAN
                   /\ toArm9' \in [Channels -> Seq(0 .. 32)] /\ listening' \in BOOLEAN
                   /\ syncOn' \in BOOLEAN /\ scfg' \in {"unset", "locked", "open"}
                   /\ word' \in {"zero", "CMME", "GCID", "GCER"} /\ cid' \in BOOLEAN
<1>8. Good
  <2>1. CASE Arm7Share  BY <1>2, <2>1, StartSteps DEF Arm7Share
  <2>2. CASE Arm7Service  BY <1>2, <2>2, StartSteps DEF Arm7Service
  <2>3. CASE Arm7Handlers  BY <1>2, <2>3, StartSteps DEF Arm7Handlers
  <2>4. CASE TestRequest  BY <1>2, <2>4 DEF TestRequest
  <2>8. CASE ClearRequest  BY <1>2, <2>8 DEF ClearRequest
  <2>9. CASE InstallMaxmod  BY <1>2, <2>9 DEF InstallMaxmod
  <2>10. CASE Sleep  BY <1>2, <2>10 DEF Sleep
  <2>11. CASE TestReset  BY <1>2, <2>11 DEF TestReset
  <2>5. CASE AnswerRequest
    <3>1. "USER_01" \in Channels /\ 1 \in 0 .. 32
      BY DEF Channels
    <3>2. Append(toArm9["USER_01"], 1) \in Seq(0 .. 32)
      BY <1>2, <3>1
    <3>3. toArm9' = [toArm9 EXCEPT !["USER_01"] = Append(toArm9["USER_01"], 1)]
      BY <2>5 DEF AnswerRequest, Reply
    <3>4. toArm9' \in [Channels -> Seq(0 .. 32)]
      BY <1>2, <3>1, <3>2, <3>3
    <3> QED
      BY <1>2, <2>5, <3>4 DEF AnswerRequest
  <2>6. CASE PollCid  BY <1>2, <2>6 DEF PollCid
  <2>7. CASE PollConsoleId  BY <1>2, <2>7 DEF PollConsoleId
  <2> QED
    BY <2>1, <2>2, <2>3, <2>4, <2>5, <2>6, <2>7, <2>8, <2>9, <2>10, <2>11 DEF Arm7Main
<1> QED
  BY <1>1, <1>8 DEF TypeOK, arm9, menu

\* A message's handler takes it from the FIFO; it answers at once, puts the
\* request down for the loop, or carries an order out.
Handled(m) == listening /\ Running7 /\ toArm7 # <<>> /\ m = Head(toArm7)
              /\ toArm7' = Tail(toArm7)
AnswersNow ==
    \E m \in Questions :
        /\ Handled(m)
        /\ m = "MAXMOD_INSTALL" => installed
        /\ Reply(ChannelOf(m), Truth(m)) /\ UNCHANGED <<pc7, requested, resetPico, light>>
PutsDown ==
    /\ Handled("MAXMOD_INSTALL") /\ ~installed
    /\ requested' = TRUE /\ UNCHANGED <<pc7, toArm9, resetPico, light>>
CarriesOut ==
    \E m \in Orders :
        /\ Handled(m) /\ UNCHANGED <<requested, toArm9>>
        /\ pc7' \in {pc7, "off"} /\ light' \in Brightness
        /\ resetPico' = (resetPico \/ m = "REBOOT_PICOLOADER")

LEMMA FifoSteps ==
    ASSUME TypeOK, Fifo7
    PROVE  /\ AnswersNow \/ PutsDown \/ CarriesOut
           /\ UNCHANGED <<console, arm9, installed, listening, syncOn, syncIf, memory>>
<1> USE DEF Receive, Handled
<1>0. light \in Brightness /\ resetPico \in BOOLEAN
  BY DEF TypeOK
<1>1. CASE HandleQuestion
  BY <1>1 DEF HandleQuestion, ImmediateAnswer, AnswersNow, Questions, ChannelOf, Truth
<1>2. CASE HandleMaxmodInstall
  BY <1>2 DEF HandleMaxmodInstall, AnswersNow, PutsDown, Questions, ChannelOf, Truth
<1>3. CASE HandleSet
  <2>1. PICK m \in SetMessages :
            /\ Receive(m) /\ light' = IF console.system = 1 THEN light ELSE LevelSet(m)
            /\ UNCHANGED <<pc7, requested, resetPico, toArm9>>
    BY <1>3 DEF HandleSet
  <2>2. light' \in Brightness /\ m \in Orders /\ m # "REBOOT_PICOLOADER"
    BY <1>0, <2>1, Levels DEF Orders
  <2> QED
    BY <1>0, <2>1, <2>2 DEF CarriesOut
<1>4. CASE HandleRebootPico
  BY <1>0, <1>4 DEF HandleRebootPico, CarriesOut, Orders
<1>5. CASE HandleLast
  BY <1>0, <1>5 DEF HandleLast, CarriesOut, Orders
<1> QED
  BY <1>1, <1>2, <1>3, <1>4, <1>5 DEF Fifo7

LEMMA TruthType == TypeOK => \A m \in Questions : Truth(m) \in 0 .. 32
<1> SUFFICES ASSUME TypeOK, NEW m \in Questions PROVE Truth(m) \in 0 .. 32
  OBVIOUS
<1>1. /\ console.system \in 0 .. 32 /\ BrightnessGet \in 0 .. 32
      /\ CheckSD \in 0 .. 32 /\ Check3DS \in 0 .. 32
  BY Truths DEF TypeOK
<1> QED
  BY <1>1 DEF Truth

LEMMA FifoTypes == TypeOK /\ Fifo7 => TypeOK'
<1> SUFFICES ASSUME TypeOK, Fifo7 PROVE TypeOK'
  OBVIOUS
<1>1. /\ AnswersNow \/ PutsDown \/ CarriesOut
      /\ UNCHANGED <<console, arm9, installed, listening, syncOn, syncIf, memory>>
  BY FifoSteps
<1>2. toArm7 \in Seq(Questions \cup Orders) /\ toArm9 \in [Channels -> Seq(0 .. 32)]
      /\ resetPico \in BOOLEAN
  BY DEF TypeOK
<1>3. toArm7' \in Seq(Questions \cup Orders)
  <2>1. toArm7 # <<>> /\ toArm7' = Tail(toArm7)
    BY <1>1 DEF AnswersNow, PutsDown, CarriesOut, Handled
  <2> QED
    BY <1>2, <2>1, HeadTailProperties
<1>4. CASE AnswersNow
  <2>1. PICK m \in Questions :
            /\ Reply(ChannelOf(m), Truth(m)) /\ UNCHANGED <<pc7, requested, resetPico, light>>
    BY <1>4 DEF AnswersNow
  <2> DEFINE c == ChannelOf(m)
  <2> DEFINE v == Truth(m)
  <2>2. c \in Channels /\ v \in 0 .. 32
    BY TruthType DEF ChannelOf, Channels
  <2>3. toArm9' = [toArm9 EXCEPT ![c] = Append(toArm9[c], v)]
    BY <2>1 DEF Reply
  <2> HIDE DEF c, v
  <2>4. Append(toArm9[c], v) \in Seq(0 .. 32)
    BY <1>2, <2>2
  <2>5. toArm9' \in [Channels -> Seq(0 .. 32)]
    BY <1>2, <2>2, <2>3, <2>4
  <2> QED
    BY <1>1, <1>3, <2>1, <2>5 DEF TypeOK, arm9, menu, memory
<1>5. CASE PutsDown
  BY <1>1, <1>3, <1>5 DEF PutsDown, TypeOK, arm9, menu, memory
<1>6. CASE CarriesOut
  <2>1. /\ UNCHANGED <<requested, toArm9>> /\ pc7' \in {pc7, "off"}
        /\ light' \in Brightness /\ resetPico' \in BOOLEAN
    BY <1>2, <1>6 DEF CarriesOut
  <2> QED
    BY <1>1, <1>3, <2>1 DEF TypeOK, arm9, menu, memory
<1> QED
  BY <1>1, <1>4, <1>5, <1>6

LEMMA SyncTypes == TypeOK /\ HandleSync => TypeOK'
<1> SUFFICES ASSUME TypeOK, HandleSync PROVE TypeOK'
  OBVIOUS
<1>1. block' \in NandCommands \cup {"zero", "nonzero"} /\ syncIf' \in BOOLEAN
  BY DEF TypeOK, HandleSync
<1>2. UNCHANGED <<console, arm9, arm7, toArm7, toArm9, listening, syncOn, scfg,
                  word, address, cid, bankC>>
  BY DEF HandleSync
<1> QED
  BY <1>1, <1>2 DEF TypeOK, arm9, arm7, menu

LEMMA TypeStep == TypeOK /\ [Next]_vars => TypeOK'
<1> SUFFICES ASSUME TypeOK, [Next]_vars PROVE TypeOK'
  OBVIOUS
<1>1. CASE UNCHANGED vars
  BY <1>1 DEF TypeOK, vars, arm9, arm7, menu, wires, memory
<1> QED
  BY <1>1, Arm9Types, LoopTypes, FifoTypes, SyncTypes DEF Next

\* Every variable keeps its type: the FIFO to ARM7 holds questions and orders
\* that menuValue32Handler knows, the one to ARM9 small answers.
THEOREM ArmIpcTypeOK == Spec => []TypeOK
BY TypeInit, TypeStep, PTL DEF Spec

-----------------------------------------------------------------------------
(* Questions and answers. *)

Holding(q) == \E i \in 1 .. Len(q) : q[i] \in Questions
OnlyLast(q, m) == \A i \in 1 .. Len(q) : q[i] \in Questions => i = Len(q) /\ q[i] = m

LEMMA OrdersAreNoQuestions == Orders \cap Questions = {}
BY Levels DEF Orders, Questions

LEMMA AppendOrder ==
    ASSUME NEW q \in Seq(Messages), NEW m \in Orders, ~Holding(q)
    PROVE  ~Holding(Append(q, m))
BY OrdersAreNoQuestions DEF Holding, Messages

LEMMA AppendQuestion ==
    ASSUME NEW q \in Seq(Messages), NEW m \in Questions, ~Holding(q)
    PROVE  Holding(Append(q, m)) /\ OnlyLast(Append(q, m), m)
<1>1. /\ Len(Append(q, m)) = Len(q) + 1 /\ Append(q, m)[Len(q) + 1] = m
      /\ \A i \in 1 .. Len(q) : Append(q, m)[i] = q[i]
      /\ Len(q) \in Nat
  BY DEF Messages
<1> QED
  BY <1>1 DEF Holding, OnlyLast

LEMMA TakeQuestion ==
    ASSUME NEW q \in Seq(Messages), q # <<>>, NEW m, OnlyLast(q, m), Head(q) \in Questions
    PROVE  Head(q) = m /\ Tail(q) = <<>>
<1>1. 1 \in 1 .. Len(q) /\ Head(q) = q[1]
  OBVIOUS
<1>2. Len(q) = 1 /\ q[1] = m
  BY <1>1 DEF OnlyLast
<1>3. Tail(q) \in Seq(Messages) /\ Len(Tail(q)) = 0
  BY <1>2, HeadTailProperties
<1> QED
  BY <1>1, <1>2, <1>3, EmptySeq

LEMMA TakeOrder ==
    ASSUME NEW q \in Seq(Messages), q # <<>>, NEW m, OnlyLast(q, m), Head(q) \in Orders
    PROVE  (Holding(Tail(q)) <=> Holding(q)) /\ OnlyLast(Tail(q), m)
<1>1. /\ q[1] \notin Questions /\ Len(q) \in Nat \ {0} /\ Len(Tail(q)) = Len(q) - 1
      /\ \A i \in 1 .. Len(q) - 1 : Tail(q)[i] = q[i + 1]
  BY OrdersAreNoQuestions, HeadTailProperties
<1>2. ASSUME Holding(q) PROVE Holding(Tail(q))
  <2>1. PICK i \in 1 .. Len(q) : q[i] \in Questions
    BY <1>2 DEF Holding
  <2>2. i - 1 \in 1 .. Len(q) - 1 /\ Tail(q)[i - 1] = q[i]
    BY <1>1, <2>1
  <2> QED
    BY <1>1, <2>1, <2>2 DEF Holding
<1>3. ASSUME NEW i \in 1 .. Len(Tail(q)), Tail(q)[i] \in Questions
      PROVE  Holding(q) /\ i = Len(Tail(q)) /\ Tail(q)[i] = m
  <2>1. i + 1 \in 1 .. Len(q) /\ q[i + 1] = Tail(q)[i]
    BY <1>1
  <2>2. i + 1 = Len(q) /\ q[i + 1] = m
    BY <1>3, <2>1 DEF OnlyLast
  <2>3. Holding(q)
    BY <1>3, <2>1 DEF Holding
  <2>6. i \in Nat
    BY <1>1
  <2>7. \A j, n \in Nat : j + 1 = n => j = n - 1
    OBVIOUS
  <2>4. i = Len(q) - 1
    BY <2>2, <2>6, <2>7
  <2>5. i = Len(Tail(q)) /\ Tail(q)[i] = m
    BY <1>1, <2>1, <2>2, <2>4
  <2> QED
    BY <2>3, <2>5
<1>4. OnlyLast(Tail(q), m)
  BY <1>3 DEF OnlyLast
<1>5. Holding(Tail(q)) => Holding(q)
  BY <1>3 DEF Holding
<1> QED
  BY <1>2, <1>4, <1>5

Quiet == [c \in Channels |-> <<>>]
Told == [c \in Channels |-> IF c = asked.on THEN <<Truth(asked.msg)>> ELSE <<>>]
Queued == Holding(toArm7)
InLoop == pc7 \in {"install", "answer"}
Answered == toArm9 # Quiet

\* ARM9 waits exactly while its question is queued, put down, in the loop's
\* hands or answered; once ARM7 has taken it nothing else is in the FIFO.
QuestionInv ==
    /\ pc9 = "wait" => /\ asked.msg \in Questions /\ asked.on = ChannelOf(asked.msg)
                       /\ asked.next \in AnswerPlaces
    /\ toArm9 \in {Quiet, Told}
    /\ (pc9 = "wait") <=> (Queued \/ requested \/ InLoop \/ Answered)
    /\ ~(requested /\ InLoop) /\ ~(requested /\ Answered) /\ ~(InLoop /\ Answered)
    /\ requested \/ InLoop \/ Answered => toArm7 = <<>>
    /\ requested \/ InLoop => asked.msg = "MAXMOD_INSTALL"
    /\ OnlyLast(toArm7, asked.msg)
    /\ pc7 = "clear" => requested
    /\ pc7 = "answer" => installed

LEMMA QuestionInit == Init => QuestionInv
BY DEF Init, QuestionInv, Queued, InLoop, Answered, Quiet, Holding, OnlyLast, StartOrder

LEMMA EmptyHoldsNone == ~Holding(<<>>) /\ \A m : OnlyLast(<<>>, m)
BY DEF Holding, OnlyLast

LEMMA QuestionArm9 == TypeOK /\ QuestionInv /\ Arm9Next => QuestionInv'
<1> SUFFICES ASSUME TypeOK, QuestionInv, Arm9Next PROVE QuestionInv'
  OBVIOUS
<1>1. /\ UNCHANGED <<console, pc7, requested, installed, resetPico, light>>
      /\ toArm7 \in Seq(Messages) /\ asked.on \in Channels
      /\ InLoop' = InLoop /\ Quiet' = Quiet
  BY Arm9Leaves DEF arm7, TypeOK, Messages, InLoop, Quiet
<1>2. CASE Asks
  <2>1. PICK m \in Questions, next \in AnswerPlaces :
            pc9 # "wait" /\ Ask(m, ChannelOf(m), next)
    BY <1>2 DEF Asks, AnswerPlaces
  <2>2. /\ asked' = [msg |-> m, on |-> ChannelOf(m), next |-> next] /\ pc9' = "wait"
        /\ toArm7' = Append(toArm7, m) /\ toArm9' = toArm9
    BY <2>1 DEF Ask, Send
  <2>3. /\ ~Holding(toArm7) /\ ~requested /\ ~InLoop /\ toArm9 = Quiet
    BY <2>1 DEF QuestionInv, Answered, Queued
  <2>4. Holding(toArm7') /\ OnlyLast(toArm7', m)
    BY <1>1, <2>2, <2>3, AppendQuestion
  <2> QED
    BY <1>1, <2>2, <2>3, <2>4 DEF QuestionInv, Answered, Queued, InLoop
<1>3. CASE Orders9
  <2>1. PICK m \in Orders : toArm7' = Append(toArm7, m) /\ pc9 # "wait" /\ pc9' # "wait"
    BY <1>3 DEF Orders9, Send
  <2>2. toArm9' = toArm9 /\ asked' = asked
    BY <1>3 DEF Orders9
  <2>3. /\ ~Holding(toArm7) /\ ~requested /\ ~InLoop /\ toArm9 = Quiet
    BY <2>1 DEF QuestionInv, Answered, Queued
  <2>4. ~Holding(toArm7')
    BY <1>1, <2>1, <2>3, AppendOrder
  <2>5. OnlyLast(toArm7', asked'.msg)
    BY <2>4 DEF Holding, OnlyLast
  <2> QED
    BY <1>1, <2>1, <2>2, <2>3, <2>4, <2>5 DEF QuestionInv, Answered, Queued, InLoop
<1>4. CASE TakeAnswer
  <2>1. /\ pc9 = "wait" /\ toArm9[asked.on] # <<>> /\ pc9' = asked.next
        /\ toArm9' = [toArm9 EXCEPT ![asked.on] = Tail(@)] /\ toArm7' = toArm7
    BY <1>4 DEF TakeAnswer
  <2>2. toArm9 = Told /\ Answered
    BY <1>1, <2>1 DEF QuestionInv, Answered, Quiet
  <2>3. Tail(toArm9[asked.on]) = <<>>
    BY <1>1, <2>2 DEF Told
  <2>4. toArm9' = Quiet
    BY <1>1, <2>1, <2>2, <2>3 DEF Told, Quiet
  <2>5. toArm7 = <<>> /\ ~requested /\ ~InLoop /\ pc9' # "wait"
    BY <2>1, <2>2 DEF QuestionInv, AnswerPlaces
  <2> QED
    BY <1>1, <2>1, <2>4, <2>5, EmptyHoldsNone DEF QuestionInv, Answered, Queued, InLoop
<1>5. CASE Silent9
  <2>1. pc9 # "wait" /\ pc9' # "wait" /\ UNCHANGED <<asked, toArm7, toArm9>>
    BY <1>5 DEF Silent9
  <2>2. toArm9 = Quiet
    BY <2>1 DEF QuestionInv, Answered
  <2> QED
    BY <1>1, <2>1, <2>2 DEF QuestionInv, Answered, Queued, InLoop
<1> QED
  BY <1>2, <1>3, <1>4, <1>5, Arm9Steps

\* A step of ARM7's loop other than those that serve a request.
Elsewhere == /\ {pc7, pc7'} \cap {"clear", "install", "answer"} = {}
             /\ UNCHANGED <<requested, installed, toArm9>>

LEMMA LoopSteps ==
    Arm7Main => \/ (TestRequest /\ requested) \/ ClearRequest \/ InstallMaxmod \/ AnswerRequest
                \/ Elsewhere
<1> SUFFICES ASSUME Arm7Main, ~ClearRequest, ~InstallMaxmod, ~AnswerRequest,
                    ~(TestRequest /\ requested)
             PROVE  Elsewhere
  OBVIOUS
<1> USE DEF wires, Step7
<1>1. CASE Arm7Share \/ Arm7Service \/ Arm7Handlers
  BY <1>1, StartSteps DEF Arm7Share, Arm7Service, Arm7Handlers, Elsewhere
<1>2. CASE TestRequest  BY <1>2 DEF TestRequest, Elsewhere
<1>3. CASE PollCid \/ PollConsoleId
  BY <1>3 DEF PollCid, PollConsoleId, Elsewhere
<1>4. CASE Sleep \/ TestReset
  BY <1>4 DEF Sleep, TestReset, Elsewhere
<1> QED
  BY <1>1, <1>2, <1>3, <1>4 DEF Arm7Main

LEMMA QuestionLoop == TypeOK /\ QuestionInv /\ Arm7Main => QuestionInv'
<1> SUFFICES ASSUME TypeOK, QuestionInv, Arm7Main PROVE QuestionInv'
  OBVIOUS
<1> USE DEF Step7, wires
<1>1. UNCHANGED <<console, pc9, asked, light, toArm7>> /\ Quiet' = Quiet
  BY LoopLeaves DEF arm9, Quiet
<1>2. CASE TestRequest /\ requested
  <2>1. pc7 = "test" /\ pc7' = "clear" /\ requested' /\ UNCHANGED <<requested, installed, toArm9>>
    BY <1>2 DEF TestRequest
  <2>2. Told' = Told
    BY <1>1, <2>1 DEF Told, Truth, BrightnessGet, CheckSD, Check3DS
  <2> QED
    BY <1>1, <2>1, <2>2 DEF QuestionInv, Queued, InLoop, Answered
<1>3. CASE ClearRequest
  <2>1. /\ pc7 = "clear" /\ ~requested' /\ pc7' = "install" /\ requested
        /\ UNCHANGED <<installed, toArm9>>
    BY <1>3 DEF ClearRequest, QuestionInv
  <2>2. toArm9 = Quiet
    BY <2>1 DEF QuestionInv, Answered
  <2> QED
    BY <1>1, <2>1, <2>2 DEF QuestionInv, Queued, InLoop, Answered
<1>4. CASE InstallMaxmod
  <2>1. /\ pc7 = "install" /\ pc7' = "answer" /\ installed'
        /\ UNCHANGED <<requested, toArm9>>
    BY <1>4 DEF InstallMaxmod
  <2>2. toArm9 = Quiet
    BY <2>1 DEF QuestionInv, Answered, InLoop
  <2> QED
    BY <1>1, <2>1, <2>2 DEF QuestionInv, Queued, InLoop, Answered
<1>5. CASE AnswerRequest
  <2>1. /\ pc7 = "answer" /\ pc7' = "cid" /\ UNCHANGED <<requested, installed>>
        /\ toArm9' = [toArm9 EXCEPT !["USER_01"] = Append(toArm9["USER_01"], 1)]
    BY <1>5 DEF AnswerRequest, Reply
  <2>2. /\ InLoop /\ installed /\ toArm9 = Quiet /\ ~requested /\ pc9 = "wait"
        /\ asked.msg = "MAXMOD_INSTALL" /\ toArm7 = <<>>
    BY <2>1 DEF QuestionInv, Answered, InLoop
  <2>3. asked'.on = "USER_01" /\ Truth(asked.msg)' = 1
    BY <1>1, <2>1, <2>2 DEF QuestionInv, ChannelOf, Truth
  <2>6. Append(<<>>, 1) = <<1>> /\ "USER_01" \in Channels
    BY DEF Channels
  <2>7. toArm9' = [c \in Channels |-> IF c = "USER_01" THEN <<1>> ELSE <<>>]
    BY <2>1, <2>2, <2>6 DEF Quiet
  <2>4. toArm9' = Told'
    BY <2>3, <2>7 DEF Told
  <2>5. Answered'
    BY <1>1, <2>3, <2>4 DEF Answered, Told, Quiet, Channels
  <2> QED
    BY <1>1, <2>1, <2>2, <2>4, <2>5, EmptyHoldsNone DEF QuestionInv, Queued, InLoop
<1>6. CASE Elsewhere
  <2>1. /\ pc7 \notin {"clear", "install", "answer"} /\ pc7' \notin {"clear", "install", "answer"}
        /\ UNCHANGED <<requested, installed, toArm9>>
    BY <1>6 DEF Elsewhere
  <2>2. Told' = Told
    BY <1>1, <2>1 DEF Told, Truth, BrightnessGet, CheckSD, Check3DS
  <2> QED
    BY <1>1, <2>1, <2>2 DEF QuestionInv, Queued, InLoop, Answered
<1> QED
  BY <1>2, <1>3, <1>4, <1>5, <1>6, LoopSteps

LEMMA QuestionFifo == TypeOK /\ QuestionInv /\ Fifo7 => QuestionInv'
<1> SUFFICES ASSUME TypeOK, QuestionInv, Fifo7 PROVE QuestionInv'
  OBVIOUS
<1>1. /\ AnswersNow \/ PutsDown \/ CarriesOut
      /\ UNCHANGED <<console, pc9, asked, installed>> /\ Quiet' = Quiet
      /\ toArm7 \in Seq(Messages)
  BY FifoSteps DEF arm9, Quiet, TypeOK, Messages
<1>2. toArm7 # <<>> /\ toArm7' = Tail(toArm7)
  BY <1>1 DEF AnswersNow, PutsDown, CarriesOut, Handled
<1>3. ~requested /\ ~InLoop /\ ~Answered /\ toArm9 = Quiet /\ OnlyLast(toArm7, asked.msg)
      /\ pc7 # "clear"
  BY <1>2 DEF QuestionInv, Answered
<1>4. ASSUME Head(toArm7) \in Questions
      PROVE  Head(toArm7) = asked.msg /\ toArm7' = <<>> /\ pc9 = "wait"
  <2>1. Holding(toArm7)
    BY <1>1, <1>2, <1>4 DEF Holding
  <2> QED
    BY <1>1, <1>2, <1>3, <1>4, <2>1, TakeQuestion DEF QuestionInv, Queued
<1>5. CASE AnswersNow
  <2>1. PICK m \in Questions :
            /\ m = Head(toArm7)
            /\ m = "MAXMOD_INSTALL" => installed
            /\ Reply(ChannelOf(m), Truth(m)) /\ UNCHANGED <<pc7, requested, resetPico, light>>
    BY <1>5 DEF AnswersNow, Handled
  <2>2. m = asked.msg /\ asked.on = ChannelOf(m) /\ toArm7' = <<>> /\ pc9 = "wait"
    BY <1>4, <2>1 DEF QuestionInv
  <2>3. Truth(asked.msg)' = Truth(m)
    BY <1>1, <2>1, <2>2 DEF Truth, BrightnessGet, CheckSD, Check3DS
  <2>4. toArm9' = [toArm9 EXCEPT ![asked.on] = Append(toArm9[asked.on], Truth(m))]
    BY <2>1, <2>2 DEF Reply
  <2>5. asked.on \in Channels /\ toArm9[asked.on] = <<>>
    BY <1>3, <2>2 DEF ChannelOf, Channels, Quiet
  <2>6. Append(<<>>, Truth(m)) = <<Truth(m)>>
    OBVIOUS
  <2>7. toArm9' = Told'
    BY <1>1, <1>3, <2>3, <2>4, <2>5, <2>6 DEF Told, Quiet
  <2>8. Answered'
    <3>1. toArm9'[asked.on] = <<Truth(m)>> /\ Quiet'[asked.on] = <<>>
      BY <1>1, <2>3, <2>5, <2>7 DEF Told, Quiet
    <3>2. <<Truth(m)>> # <<>>
      OBVIOUS
    <3>3. toArm9' # Quiet'
      BY <3>1, <3>2
    <3> QED
      BY <3>3 DEF Answered
  <2> QED
    BY <1>1, <1>3, <2>1, <2>2, <2>7, <2>8, EmptyHoldsNone DEF QuestionInv, Queued, InLoop
<1>6. CASE PutsDown
  <2>1. /\ Head(toArm7) = "MAXMOD_INSTALL" /\ requested' /\ UNCHANGED <<pc7, toArm9, light>>
    BY <1>6 DEF PutsDown, Handled
  <2>2. asked.msg = "MAXMOD_INSTALL" /\ toArm7' = <<>> /\ pc9 = "wait"
    BY <1>4, <2>1 DEF Questions
  <2> QED
    BY <1>1, <1>3, <2>1, <2>2, EmptyHoldsNone DEF QuestionInv, Queued, InLoop, Answered
<1>7. CASE CarriesOut
  <2>1. PICK m \in Orders : /\ m = Head(toArm7) /\ UNCHANGED <<requested, toArm9>>
                            /\ pc7' \in {pc7, "off"}
    BY <1>7 DEF CarriesOut, Handled
  <2>2. (Holding(toArm7') <=> Holding(toArm7)) /\ OnlyLast(toArm7', asked.msg)
    BY <1>1, <1>2, <1>3, <2>1, TakeOrder
  <2> QED
    BY <1>1, <1>3, <2>1, <2>2 DEF QuestionInv, Queued, InLoop, Answered
<1> QED
  BY <1>1, <1>5, <1>6, <1>7

LEMMA QuestionStep == TypeOK /\ QuestionInv /\ [Next]_vars => QuestionInv'
<1> SUFFICES ASSUME TypeOK, QuestionInv, HandleSync \/ UNCHANGED vars PROVE QuestionInv'
  BY QuestionArm9, QuestionLoop, QuestionFifo DEF Next
<1>1. UNCHANGED <<console, pc9, asked, pc7, requested, installed, light, toArm7, toArm9>>
  BY DEF HandleSync, vars, arm9, arm7, wires
<1>2. Told' = Told /\ Quiet' = Quiet
  BY <1>1 DEF Told, Quiet, Truth, BrightnessGet, CheckSD, Check3DS
<1> QED
  BY <1>1, <1>2 DEF QuestionInv, Queued, InLoop, Answered

LEMMA QuestionFacts == TypeOK /\ QuestionInv => AnswersPaired
<1> SUFFICES ASSUME TypeOK, QuestionInv PROVE AnswersPaired
  OBVIOUS
<1>0. toArm9 \in [Channels -> Seq(0 .. 32)]
  BY DEF TypeOK
<1>1. AnswerFits
  <2> SUFFICES ASSUME NEW c \in Channels, NEW i \in 1 .. Len(toArm9[c])
               PROVE  pc9 = "wait" /\ c = asked.on /\ toArm9[c][i] = Truth(asked.msg)
    BY DEF AnswerFits
  <2>1. toArm9[c] # <<>>
    OBVIOUS
  <2>2. toArm9 = Told /\ pc9 = "wait"
    BY <2>1 DEF QuestionInv, Answered, Quiet
  <2>3. c = asked.on /\ toArm9[c] = <<Truth(asked.msg)>>
    BY <2>1, <2>2 DEF Told
  <2> QED
    BY <2>2, <2>3
<1>2. Holds("queued") = Queued /\ Holds("requested") = requested
      /\ Holds("loop") = InLoop /\ Holds("answered") = (\E c \in Channels : toArm9[c] # <<>>)
  BY DEF Holds, Queued, Holding, InLoop
<1>3. (\E c \in Channels : toArm9[c] # <<>>) <=> Answered
  BY <1>0 DEF Answered, Quiet
<1>4. OneAnswer
  <2>1. (pc9 = "wait") <=> \E stage \in Stages : Holds(stage)
    BY <1>2, <1>3 DEF QuestionInv, Stages
  <2>2. Queued => toArm7 # <<>>
    BY EmptyHoldsNone DEF Queued
  <2>3. \A s, t \in Stages : Holds(s) /\ Holds(t) => s = t
    BY <1>2, <1>3, <2>2 DEF QuestionInv, Stages
  <2>4. \A i \in 1 .. Len(toArm7) : toArm7[i] \in Questions =>
            i = Len(toArm7) /\ toArm7[i] = asked.msg
    BY DEF QuestionInv, OnlyLast
  <2>5. Len(toArm9["USER_01"]) + Len(toArm9["USER_02"]) <= 1
    <3>1. CASE toArm9 = Quiet
      BY <3>1 DEF Quiet, Channels
    <3>2. CASE toArm9 = Told
      BY <3>2 DEF Told, Channels
    <3> QED
      BY <3>1, <3>2 DEF QuestionInv
  <2> QED
    BY <2>1, <2>3, <2>4, <2>5 DEF OneAnswer
<1> QED
  BY <1>1, <1>4 DEF AnswersPaired

\* However the loop and the interrupts of ARM7 come, every question of the
\* menu is answered once, truly, on the channel on which the menu waits.
THEOREM ArmIpcAnswersPaired == Spec => []AnswersPaired
<1>1. Init => TypeOK /\ QuestionInv
  BY TypeInit, QuestionInit
<1>2. TypeOK /\ QuestionInv /\ [Next]_vars => (TypeOK /\ QuestionInv)'
  BY TypeStep, QuestionStep
<1> QED
  BY <1>1, <1>2, QuestionFacts, PTL DEF Spec

-----------------------------------------------------------------------------
(* What the processors share. *)

AtNand == pc9 \in {"havesd", "start", "sector0", "nandcid", "cidwait", "gcid", "gcidword",
                   "gcidwait", "files", "reading"}

\* Until ARM7 has shared its SCFG, enabled its interrupt and set its handlers,
\* ARM9 gets no answer, so it stands before its first decision.
StartInv ==
    /\ listening <=> pc7 \notin {"share", "service", "handlers"}
    /\ pc7 # "share" => scfg # "unset"
    /\ pc7 \notin {"share", "service"} => syncOn = console.dsi
    /\ pc9 \notin {"fs", "wait"} => listening
    /\ Answered => listening

\* The NAND is looked at on a DSi only, step by step.
NandInv ==
    /\ AtNand \/ mounted => console.dsi
    /\ block \in NandCommands => syncIf
    /\ pc9 = "cidwait" => word = "CMME" \/ cid
    /\ pc9 \in {"gcid", "gcidword"} => cid
    /\ pc9 = "gcidword" => address = "crypt_buf"
    /\ CryptoReady

LEMMA SharedInit == Init => StartInv /\ NandInv
BY DEF Init, StartInv, NandInv, StartOrder, Answered, Quiet, AtNand, CryptoReady,
       NandCommands

LEMMA StartArm9 == TypeOK /\ QuestionInv /\ StartInv /\ Arm9Next => StartInv'
<1> SUFFICES ASSUME TypeOK, QuestionInv, StartInv, Arm9Next PROVE StartInv'
  OBVIOUS
<1>1. UNCHANGED <<console, pc7, listening, syncOn, scfg>> /\ Quiet' = Quiet
  BY Arm9Leaves DEF arm7, Quiet
<1>2. (pc9' \notin {"fs", "wait"} => listening) /\ (Answered' => listening)
  <2>1. CASE Asks
    <3>1. pc9' = "wait" /\ toArm9' = toArm9
      BY <2>1 DEF Asks, Ask
    <3> QED
      BY <1>1, <3>1 DEF StartInv, Answered
  <2>2. CASE Orders9 \/ Silent9
    BY <1>1, <2>2 DEF Orders9, Silent9, StartInv, Answered
  <2>3. CASE TakeAnswer
    <3>1. asked.on \in Channels /\ pc9 = "wait" /\ toArm9[asked.on] # <<>>
      BY <2>3 DEF TakeAnswer, TypeOK
    <3>2. Answered
      BY <3>1 DEF Answered, Quiet
    <3> QED
      BY <3>2 DEF StartInv
  <2> QED
    BY <2>1, <2>2, <2>3, Arm9Steps
<1> QED
  BY <1>1, <1>2 DEF StartInv

LEMMA StartLoop == TypeOK /\ StartInv /\ Arm7Main => StartInv'
<1> SUFFICES ASSUME TypeOK, StartInv, Arm7Main PROVE StartInv'
  OBVIOUS
<1> USE DEF Step7, wires, memory
<1>1. UNCHANGED <<console, pc9>> /\ Quiet' = Quiet
  BY LoopLeaves DEF arm9, Quiet
<1>0. console.dsi \in BOOLEAN /\ listening \in BOOLEAN /\ syncOn \in BOOLEAN
  BY ConsoleAssumption DEF TypeOK
<1>2. CASE Arm7Share  BY <1>0, <1>1, <1>2, StartSteps DEF Arm7Share, StartInv, Answered
<1>3. CASE Arm7Service  BY <1>0, <1>1, <1>3, StartSteps DEF Arm7Service, StartInv, Answered
<1>4. CASE Arm7Handlers  BY <1>0, <1>1, <1>4, StartSteps DEF Arm7Handlers, StartInv, Answered
<1>5. CASE TestRequest \/ ClearRequest \/ InstallMaxmod \/ Sleep \/ TestReset
           \/ PollCid \/ PollConsoleId \/ AnswerRequest
  <2>1. UNCHANGED <<listening, syncOn, scfg>>
    BY <1>5 DEF TestRequest, ClearRequest, InstallMaxmod, Sleep, TestReset, PollCid,
                PollConsoleId, AnswerRequest
  <2>2. {pc7, pc7'} \cap {"share", "service", "handlers"} = {}
    BY <1>5 DEF TestRequest, ClearRequest, InstallMaxmod, Sleep, TestReset, PollCid,
                PollConsoleId, AnswerRequest
  <2> QED
    BY <1>0, <1>1, <2>1, <2>2 DEF StartInv
<1> QED
  BY <1>2, <1>3, <1>4, <1>5 DEF Arm7Main

LEMMA StartFifo == TypeOK /\ StartInv /\ Fifo7 => StartInv'
<1> SUFFICES ASSUME TypeOK, StartInv, Fifo7 PROVE StartInv'
  OBVIOUS
<1>1. /\ AnswersNow \/ PutsDown \/ CarriesOut
      /\ UNCHANGED <<console, pc9, listening, syncOn, scfg>>
  BY FifoSteps DEF arm9, memory
<1>2. listening /\ pc7' \in {pc7, "off"}
  BY <1>1 DEF AnswersNow, PutsDown, CarriesOut, Handled
<1> QED
  BY <1>1, <1>2 DEF StartInv

\* The steps of ARM9 that do not touch the mailboxes.
LEMMA FarFromNand ==
    ASSUME TypeOK, QuestionInv, Arm9Next, ~AskCid, ~Configure, ~HaveSD, ~NandStarted,
           ~Sector0Read, ~NandAskCid, ~NandCidTold, ~GiveBuffer, ~AskConsoleId,
           ~ConsoleIdTold, ~ReadFiles, ~FilesRead
    PROVE  ~AtNand' /\ UNCHANGED <<block, word, address, syncIf, mounted>>
<1> USE DEF menu, wires, memory, Go, Ask, Order, Send
<1> DEFINE Far == ~AtNand' /\ UNCHANGED <<block, word, address, syncIf, mounted>>
<1>1. CASE TakeAnswer
  <2>1. asked.next \in AnswerPlaces
    BY <1>1 DEF TakeAnswer, QuestionInv
  <2> QED
    BY <1>1, <2>1 DEF TakeAnswer, AtNand, AnswerPlaces
<1>2. CASE CheckSDInserted \/ DebugIs3DS \/ NextBrightness \/ LaunchUnlaunch
  BY <1>2 DEF CheckSDInserted, DebugIs3DS, NextBrightness, LaunchUnlaunch, AtNand
<1>3. CASE DebugSystem  BY <1>3 DEF DebugSystem, AtNand
<1>4. CASE LoadSettings \/ LevelTold
  BY <1>4 DEF LoadSettings, LevelTold, SetBrightness, AtNand
<1>5. CASE InitDonors  BY <1>5 DEF InitDonors, AtNand
<1>6. CASE DonorsIs3DS  BY <1>6 DEF DonorsIs3DS, AtNand
<1>7. CASE CidTold \/ ConfigureForLaunch \/ JumpPico9
  BY <1>7 DEF CidTold, ConfigureForLaunch, JumpPico9, AtNand
<1>8. CASE StartMusic  BY <1>8 DEF StartMusic, AtNand
<1>9. CASE MusicStarted  BY <1>9 DEF MusicStarted, AtNand
<1>10. CASE LaunchBootstrap("menu") \/ (pc9 = "unlaunch" /\ told # 0 /\ LaunchBootstrap("unlaunch"))
  BY <1>10 DEF LaunchBootstrap, AtNand
<1>11. CASE LaunchRan  BY <1>11 DEF LaunchRan, AtNand
<1>12. CASE BootUnlaunch \/ BootGBA \/ RebootPico
  BY <1>12 DEF BootUnlaunch, BootGBA, RebootPico, AtNand
<1>13. CASE LoadPico \/ GiveBankC
  BY <1>13 DEF LoadPico, GiveBankC, AtNand
<1> QED
  BY <1>1, <1>2, <1>3, <1>4, <1>5, <1>6, <1>7, <1>8, <1>9, <1>10, <1>11, <1>12, <1>13
  DEF Arm9Next

LEMMA NandArm9 == TypeOK /\ QuestionInv /\ StartInv /\ NandInv /\ Arm9Next => NandInv'
<1> SUFFICES ASSUME TypeOK, QuestionInv, StartInv, NandInv, Arm9Next PROVE NandInv'
  OBVIOUS
<1> USE DEF menu, wires, memory, Go, NandInv, AtNand, CryptoReady
<1>1. UNCHANGED <<console, cid>>
  BY Arm9Leaves
<1>2. ret \in {"askcid", "ran"} /\ console.dsi \in BOOLEAN /\ syncIf \in BOOLEAN
      /\ syncOn \in BOOLEAN
  BY ConsoleAssumption DEF TypeOK
<1>3. pc9 \notin {"fs", "wait"} => syncOn = console.dsi
  BY DEF StartInv
<1>4. ASSUME NEW c, NEW next, Command(c, next), console.dsi, pc9 \notin {"fs", "wait"},
             next \in {"havesd", "start", "sector0", "reading"}
      PROVE  NandInv'
  <2>1. syncIf' /\ pc9' = next /\ UNCHANGED <<mounted, word, address>>
    BY <1>2, <1>3, <1>4 DEF Command, SendSync
  <2> QED
    BY <1>1, <1>4, <2>1
<1>5. CASE AskCid
  <2>1. pc9' = "waitcid" /\ word' \in {"CMME", word}
    BY <1>5 DEF AskCid
  <2> QED
    BY <1>1, <1>5, <2>1 DEF AskCid
<1>6. CASE Configure
  <2>1. CASE Go(ret)  BY <1>1, <1>2, <2>1
  <2>2. CASE mounted /\ Go("files")  BY <1>1, <1>2, <2>2
  <2>3. CASE console.dsi /\ ~mounted /\ Command("HVSD", "havesd")
    BY <1>4, <1>6, <2>3 DEF Configure
  <2> QED
    BY <1>6, <2>1, <2>2, <2>3 DEF Configure
<1>7. CASE HaveSD
  <2>1. CASE Go(ret)  BY <1>1, <1>2, <2>1
  <2>2. CASE Command("NAST", "start")
    BY <1>4, <1>7, <2>2 DEF HaveSD
  <2> QED
    BY <1>7, <2>1, <2>2 DEF HaveSD
<1>8. CASE NandStarted
  <2>1. CASE Go(ret)  BY <1>1, <1>2, <2>1
  <2>2. CASE Command("NARD", "sector0")
    BY <1>4, <1>8, <2>2 DEF NandStarted
  <2> QED
    BY <1>8, <2>1, <2>2 DEF NandStarted
<1>9. CASE Sector0Read
  BY <1>1, <1>2, <1>9 DEF Sector0Read
<1>10. CASE NandAskCid  BY <1>1, <1>10 DEF NandAskCid
<1>11. CASE NandCidTold  BY <1>1, <1>11 DEF NandCidTold
<1>12. CASE GiveBuffer  BY <1>1, <1>12 DEF GiveBuffer
<1>13. CASE AskConsoleId  BY <1>1, <1>13 DEF AskConsoleId
<1>14. CASE ConsoleIdTold
  <2>1. CASE Go(ret)  BY <1>1, <1>2, <2>1
  <2>2. CASE ~Go(ret)
    <3>1. pc9 = "gcidwait" /\ pc9' = "files" /\ UNCHANGED <<block, word, address, syncIf>>
      BY <1>14, <2>2 DEF ConsoleIdTold
    <3> QED
      BY <1>1, <3>1
  <2> QED
    BY <2>1, <2>2
<1>15. CASE ReadFiles
  BY <1>4, <1>15 DEF ReadFiles
<1>16. CASE FilesRead
  BY <1>1, <1>2, <1>16 DEF FilesRead
<1>17. CASE ~AtNand' /\ UNCHANGED <<block, word, address, syncIf, mounted>>
  BY <1>1, <1>17
<1> QED
  BY <1>5, <1>6, <1>7, <1>8, <1>9, <1>10, <1>11, <1>12, <1>13, <1>14, <1>15, <1>16, <1>17,
     FarFromNand

LEMMA NandArm7 ==
    TypeOK /\ NandInv /\ (Arm7Main \/ Fifo7 \/ HandleSync \/ UNCHANGED vars) => NandInv'
<1> SUFFICES ASSUME TypeOK, NandInv, Arm7Main \/ Fifo7 \/ HandleSync \/ UNCHANGED vars
             PROVE  NandInv'
  OBVIOUS
<1> USE DEF NandInv, AtNand, CryptoReady
<1>0. cid \in BOOLEAN
  BY DEF TypeOK
<1>1. CASE Arm7Main
  <2>1. UNCHANGED <<console, pc9, mounted, block, address, syncIf>>
    BY <1>1, LoopLeaves DEF arm9, menu
  <2>2. \/ UNCHANGED <<word, cid>>
        \/ word' = "zero" /\ cid' = (cid \/ word = "CMME")
        \/ word = "GCID" /\ word' \in {"zero", "GCER"} /\ cid' = cid
        \/ word # "CMME" /\ word' = word /\ cid' = cid
    BY <1>0, <1>1 DEF Arm7Main, Arm7Share, Arm7Service, Arm7Handlers, TestRequest, ClearRequest,
           InstallMaxmod, AnswerRequest, PollCid, PollConsoleId, Sleep, TestReset, memory
  <2> QED
    BY <1>0, <2>1, <2>2
<1>2. CASE Fifo7
  <2>1. UNCHANGED <<console, pc9, mounted, memory, syncIf>>
    BY <1>2, FifoSteps DEF arm9, menu
  <2> QED
    BY <2>1 DEF memory
<1>3. CASE HandleSync
  <2>1. UNCHANGED <<console, pc9, mounted, word, address, cid>>
        /\ block' \notin NandCommands
    BY <1>3 DEF HandleSync, arm9, menu, NandCommands
  <2> QED
    BY <2>1
<1>4. CASE UNCHANGED vars
  BY <1>4 DEF vars, arm9, menu, wires, memory
<1> QED
  BY <1>1, <1>2, <1>3, <1>4

LEMMA SharedStep ==
    TypeOK /\ QuestionInv /\ StartInv /\ NandInv /\ [Next]_vars => (StartInv /\ NandInv)'
<1> SUFFICES ASSUME TypeOK, QuestionInv, StartInv, NandInv, [Next]_vars
             PROVE  (StartInv /\ NandInv)'
  OBVIOUS
<1>1. CASE HandleSync \/ UNCHANGED vars
  <2>1. UNCHANGED <<console, pc9, pc7, listening, syncOn, scfg, toArm9>>
    BY <1>1 DEF HandleSync, vars, arm9, arm7, wires, memory
  <2>2. StartInv'
    BY <2>1 DEF StartInv, Answered, Quiet
  <2> QED
    BY <1>1, <2>2, NandArm7
<1> QED
  BY <1>1, StartArm9, StartLoop, StartFifo, NandArm9, NandArm7 DEF Next

\* In every run the processors read what they share only after the other one
\* has written it.
THEOREM ArmIpcSharedInOrder == Spec => []SharedInOrder
<1>1. Init => TypeOK /\ QuestionInv /\ StartInv /\ NandInv
  BY TypeInit, QuestionInit, SharedInit
<1>2. TypeOK /\ QuestionInv /\ StartInv /\ NandInv /\ [Next]_vars
      => (TypeOK /\ QuestionInv /\ StartInv /\ NandInv)'
  BY TypeStep, QuestionStep, SharedStep
<1>3. StartInv /\ NandInv => SharedInOrder
  BY DEF StartInv, NandInv, SharedInOrder, CommandHeard, ScfgShared
<1> QED
  BY <1>1, <1>2, <1>3, PTL DEF Spec

-----------------------------------------------------------------------------
(* The way to Pico-Loader. *)

Rebooting(q) == \E i \in 1 .. Len(q) : q[i] = "REBOOT_PICOLOADER"

\* From the order to reset on, ARM9 does nothing but jump.
HandoverInv ==
    /\ resetPico \/ Rebooting(toArm7) => bankC = "loader7" /\ pc9 \in {"jump", "pico9"}
    /\ pc7 = "pico7" => resetPico
    /\ pc9 = "pico" => bankC = "loader7"

LEMMA HandoverInit == Init => HandoverInv
BY DEF Init, HandoverInv, Rebooting, StartOrder

LEMMA AppendRebooting ==
    ASSUME NEW q \in Seq(Messages), NEW m \in Messages, Rebooting(Append(q, m))
    PROVE  Rebooting(q) \/ m = "REBOOT_PICOLOADER"
<1>1. /\ Len(Append(q, m)) = Len(q) + 1 /\ Append(q, m)[Len(q) + 1] = m
      /\ \A i \in 1 .. Len(q) : Append(q, m)[i] = q[i]
      /\ Len(q) \in Nat
  OBVIOUS
<1> QED
  BY <1>1 DEF Rebooting

LEMMA TailRebooting ==
    ASSUME NEW q \in Seq(Messages), q # <<>>
    PROVE  /\ Rebooting(Tail(q)) => Rebooting(q)
           /\ Head(q) = "REBOOT_PICOLOADER" => Rebooting(q)
<1>1. /\ Len(q) \in Nat \ {0} /\ Len(Tail(q)) = Len(q) - 1 /\ Head(q) = q[1]
      /\ \A i \in 1 .. Len(q) - 1 : Tail(q)[i] = q[i + 1]
  BY HeadTailProperties
<1>2. \A i \in 1 .. Len(q) - 1 : i + 1 \in 1 .. Len(q)
  BY <1>1
<1> QED
  BY <1>1, <1>2 DEF Rebooting

\* Which of ARM9's steps concern the bank.
LEMMA HandoverSteps ==
    ASSUME TypeOK, QuestionInv, Arm9Next, ~LoadPico, ~GiveBankC, ~JumpPico9
    PROVE  pc9 \notin {"jump", "pico9"} /\ pc9' # "pico" /\ bankC' = bankC
<1> USE DEF memory, Go, Ask, Order, Command
<1>0. ret \in {"askcid", "ran"}
  BY DEF TypeOK
<1>1. CASE TakeAnswer
  <2>1. asked.next \in AnswerPlaces
    BY <1>1 DEF TakeAnswer, QuestionInv
  <2> QED
    BY <1>1, <2>1 DEF TakeAnswer, AnswerPlaces
<1>2. CASE CheckSDInserted \/ DebugIs3DS \/ NextBrightness \/ LaunchUnlaunch
  BY <1>2 DEF CheckSDInserted, DebugIs3DS, NextBrightness, LaunchUnlaunch
<1>3. CASE DebugSystem \/ InitDonors \/ StartMusic
  BY <1>3 DEF DebugSystem, InitDonors, StartMusic
<1>4. CASE LoadSettings \/ LevelTold
  BY <1>4 DEF LoadSettings, LevelTold, SetBrightness
<1>5. CASE DonorsIs3DS \/ AskCid \/ CidTold \/ ConfigureForLaunch \/ MusicStarted
  BY <1>5 DEF DonorsIs3DS, AskCid, CidTold, ConfigureForLaunch, MusicStarted
<1>6. CASE LaunchBootstrap("menu") \/ (pc9 = "unlaunch" /\ told # 0 /\ LaunchBootstrap("unlaunch"))
  BY <1>6 DEF LaunchBootstrap
<1>7. CASE LaunchRan \/ BootUnlaunch \/ BootGBA \/ RebootPico
  BY <1>7 DEF LaunchRan, BootUnlaunch, BootGBA, RebootPico
<1>8. CASE Configure \/ HaveSD \/ NandStarted \/ Sector0Read \/ ReadFiles \/ FilesRead
  BY <1>0, <1>8 DEF Configure, HaveSD, NandStarted, Sector0Read, ReadFiles, FilesRead
<1>9. CASE NandAskCid \/ NandCidTold \/ GiveBuffer \/ AskConsoleId \/ ConsoleIdTold
  BY <1>0, <1>9 DEF NandAskCid, NandCidTold, GiveBuffer, AskConsoleId, ConsoleIdTold
<1> QED
  BY <1>1, <1>2, <1>3, <1>4, <1>5, <1>6, <1>7, <1>8, <1>9 DEF Arm9Next

LEMMA HandoverArm9 == TypeOK /\ QuestionInv /\ HandoverInv /\ Arm9Next => HandoverInv'
<1> SUFFICES ASSUME TypeOK, QuestionInv, HandoverInv, Arm9Next PROVE HandoverInv'
  OBVIOUS
<1>1. UNCHANGED <<pc7, resetPico>> /\ toArm7 \in Seq(Messages)
  BY Arm9Leaves DEF arm7, TypeOK, Messages
<1>2. CASE LoadPico \/ GiveBankC \/ JumpPico9
  BY <1>1, <1>2 DEF LoadPico, GiveBankC, JumpPico9, Go, wires, memory, HandoverInv
<1>3. CASE ~LoadPico /\ ~GiveBankC /\ ~JumpPico9
  <2>1. pc9 \notin {"jump", "pico9"} /\ pc9' # "pico" /\ bankC' = bankC
    BY <1>3, HandoverSteps
  <2>2. ~resetPico /\ ~Rebooting(toArm7)
    BY <2>1 DEF HandoverInv
  <2>3. CASE Asks
    <3>1. PICK m \in Questions : toArm7' = Append(toArm7, m)
      BY <2>3 DEF Asks, Ask, Send
    <3>2. ~Rebooting(toArm7')
      BY <1>1, <2>2, <3>1, AppendRebooting DEF Messages, Questions
    <3> QED
      BY <1>1, <2>1, <2>2, <3>2 DEF HandoverInv
  <2>4. CASE Orders9
    <3>1. PICK m \in Orders : /\ toArm7' = Append(toArm7, m)
                              /\ m = "REBOOT_PICOLOADER" => pc9 = "pico" /\ pc9' = "jump"
      BY <2>4 DEF Orders9, Send
    <3>2. Rebooting(toArm7') => m = "REBOOT_PICOLOADER"
      BY <1>1, <2>2, <3>1, AppendRebooting DEF Messages
    <3> QED
      BY <1>1, <2>1, <2>2, <3>1, <3>2 DEF HandoverInv
  <2>5. CASE TakeAnswer \/ Silent9
    <3>1. toArm7' = toArm7
      BY <2>5 DEF TakeAnswer, Silent9
    <3> QED
      BY <1>1, <2>1, <2>2, <3>1 DEF HandoverInv
  <2> QED
    BY <2>3, <2>4, <2>5, Arm9Steps
<1> QED
  BY <1>2, <1>3

LEMMA HandoverArm7 ==
    TypeOK /\ HandoverInv /\ (Arm7Main \/ Fifo7 \/ HandleSync \/ UNCHANGED vars)
        => HandoverInv'
<1> SUFFICES ASSUME TypeOK, HandoverInv, Arm7Main \/ Fifo7 \/ HandleSync \/ UNCHANGED vars
             PROVE  HandoverInv'
  OBVIOUS
<1>0. resetPico \in BOOLEAN /\ toArm7 \in Seq(Messages)
  BY DEF TypeOK, Messages
<1>1. CASE Arm7Main
  <2>1. UNCHANGED <<pc9, resetPico, toArm7, bankC>>
    BY <1>1, LoopLeaves DEF arm9
  <2>2. pc7' = "pico7" => resetPico
    <3>1. CASE Arm7Share \/ Arm7Service \/ Arm7Handlers
      BY <3>1, StartSteps DEF Arm7Share, Arm7Service, Arm7Handlers
    <3>2. CASE ~Arm7Share /\ ~Arm7Service /\ ~Arm7Handlers
      BY <1>1, <3>2 DEF Arm7Main, TestRequest, ClearRequest, InstallMaxmod, AnswerRequest,
                        PollCid, PollConsoleId, Sleep, TestReset, Step7
    <3> QED
      BY <3>1, <3>2
  <2> QED
    BY <2>1, <2>2 DEF HandoverInv
<1>2. CASE Fifo7
  <2>1. /\ AnswersNow \/ PutsDown \/ CarriesOut
        /\ UNCHANGED <<pc9, bankC>>
    BY <1>2, FifoSteps DEF arm9, memory
  <2>2. toArm7 # <<>> /\ toArm7' = Tail(toArm7) /\ pc7' \in {pc7, "off"} /\ pc7 # "pico7"
    BY <2>1 DEF AnswersNow, PutsDown, CarriesOut, Handled, Running7
  <2>3. resetPico' => resetPico \/ Head(toArm7) = "REBOOT_PICOLOADER"
    BY <2>1 DEF AnswersNow, PutsDown, CarriesOut, Handled
  <2>4. resetPico' \/ Rebooting(toArm7') => resetPico \/ Rebooting(toArm7)
    BY <1>0, <2>2, <2>3, TailRebooting
  <2> QED
    BY <2>1, <2>2, <2>4 DEF HandoverInv
<1>3. CASE HandleSync \/ UNCHANGED vars
  <2>1. UNCHANGED <<pc9, pc7, resetPico, toArm7, bankC>>
    BY <1>3 DEF HandleSync, vars, arm9, arm7, wires, memory
  <2> QED
    BY <2>1 DEF HandoverInv
<1> QED
  BY <1>1, <1>2, <1>3

\* ARM7 never jumps into a bank that ARM9 still owns, or while ARM9 could take
\* it back.
THEOREM ArmIpcHandedOver == Spec => []HandedOver
<1>1. Init => TypeOK /\ QuestionInv /\ HandoverInv
  BY TypeInit, QuestionInit, HandoverInit
<1>2. TypeOK /\ QuestionInv /\ HandoverInv /\ [Next]_vars
      => (TypeOK /\ QuestionInv /\ HandoverInv)'
  <2>1. TypeOK /\ QuestionInv /\ HandoverInv /\ [Next]_vars => HandoverInv'
    BY HandoverArm9, HandoverArm7 DEF Next
  <2> QED
    BY <2>1, TypeStep, QuestionStep
<1>3. HandoverInv => HandedOver
  BY DEF HandoverInv, HandedOver
<1> QED
  BY <1>1, <1>2, <1>3, PTL DEF Spec
=============================================================================
