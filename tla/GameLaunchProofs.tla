-------------------------- MODULE GameLaunchProofs --------------------------
(***************************************************************************)
(* Proofs about GameLaunch, for every set of games, homebrews, documents   *)
(* and consoles and every length of the recently played list.              *)
(*                                                                         *)
(* LaunchInv is the inductive invariant: the types, how many progress      *)
(* windows each step can have behind it, what the save file, the INI and   *)
(* the cheat file hold by the time the launcher is started.                *)
(***************************************************************************)
EXTENDS GameLaunch, HalfwordCopy, TLAPS

USE DEF Programs

Donated == [DonorKeys -> Paths \cup {NoPath}]

-----------------------------------------------------------------------------
(* The operators the actions are built from. *)

LEMMA SavedEither ==
    ASSUME NEW old, NEW new, NEW empty, NEW x \in Saved(old, new, empty)
    PROVE  x = old \/ (writable /\ x \in {new, empty})
BY DEF Saved

LEMMA DonorsType ==
    ASSUME ini \in Inis \cup {NoIni}
    PROVE  Donors(ini) \in Donated
BY DEF Donors, NoDonors, Inis, Donated

LEMMA ConfiguredType ==
    ASSUME NEW prev \in Donated, NEW r \in BOOLEAN, NEW m \in BOOLEAN,
           NEW found \in SUBSET {Sdk50Key, Sdk5Key}
    PROVE  Configured(prev, r, m, found) \in Donated
<1> DEFINE mounted == MountedBy(prev, r, m)
           kept == [k \in DonorKeys |-> Kept(prev[k], mounted)]
<1>1. \A k \in DonorKeys : kept[k] \in Paths \cup {NoPath}
  BY DEF Kept, Donated, Paths, NandPaths
<1>2. QED
  BY <1>1 DEF Configured, Donated, Paths, NandPaths

LEMMA EmptyIniType == EmptyIni \in Inis
BY DEF EmptyIni, Inis, NoDonors

LEMMA LesserIn ==
    ASSUME NEW a \in Nat, NEW b \in Nat
    PROVE  /\ Lesser(a, b) \in Nat /\ Lesser(a, b) <= a /\ Lesser(a, b) <= b
           /\ Larger(a, b) \in Nat /\ Larger(a, b) >= a /\ Larger(a, b) >= b
           /\ Larger(a, b) \in {a, b} /\ Lesser(a, b) \in {a, b}
BY DEF Lesser, Larger

\* Where f stands, or just past the end.
LEMMA PositionIn ==
    ASSUME NEW S, NEW items \in Seq(S), NEW f,
           \A i, j \in DOMAIN items : items[i] = items[j] => i = j
    PROVE  /\ Position(items, f) \in 1 .. Len(items) + 1
           /\ Position(items, f) <= Len(items) => items[Position(items, f)] = f
           /\ \A i \in DOMAIN items : i # Position(items, f) => items[i] # f
<1>1. CASE \E i \in DOMAIN items : items[i] = f
  <2> DEFINE P(i) == i \in DOMAIN items /\ items[i] = f
                        /\ \A j \in 1 .. i - 1 : items[j] # f
  <2>1. PICK i \in DOMAIN items : items[i] = f
    BY <1>1
  <2>2. i \in 1 .. Len(items) /\ DOMAIN items = 1 .. Len(items)
    OBVIOUS
  <2>3. \A j \in 1 .. i - 1 : items[j] # f
    BY <2>1, <2>2
  <2>4. P(Position(items, f))
    BY <1>1, <2>1, <2>3 DEF Position
  <2>5. QED
    BY <2>2, <2>4
<1>2. CASE ~ \E i \in DOMAIN items : items[i] = f
  BY <1>2 DEF Position
<1>3. QED
  BY <1>1, <1>2

\* AddToRecent keeps a list without duplicates one, and within its length.
LEMMA InsertedDistinct ==
    ASSUME NEW S, NEW items \in Seq(S), NEW f \in S,
           \A i, j \in DOMAIN items : items[i] = items[j] => i = j
    PROVE  /\ Inserted(items, f) \in Seq(S)
           /\ Len(Inserted(items, f)) <= MaxRecent
           /\ \A i, j \in DOMAIN Inserted(items, f) :
                 Inserted(items, f)[i] = Inserted(items, f)[j] => i = j
<1> DEFINE p == Position(items, f)
           n == Lesser(MaxRecent, Larger(Len(items), p))
           new == [j \in 1 .. n |-> IF j = 1 THEN f
                                    ELSE IF j <= p THEN items[j - 1] ELSE items[j]]
<1>1. Inserted(items, f) = new
  BY DEF Inserted
<1>2. /\ p \in 1 .. Len(items) + 1 /\ Len(items) \in Nat
      /\ \A i \in DOMAIN items : i # p => items[i] # f
      /\ DOMAIN items = 1 .. Len(items)
  BY PositionIn
<1>3. n \in Nat /\ n <= MaxRecent /\ n <= Len(items) + 1 /\ (p <= Len(items) => n <= Len(items))
  BY <1>2, LesserIn, LaunchAssumption DEF Lesser, Larger
<1> HIDE DEF p, n
<1>4. \A j \in 1 .. n : new[j] \in S
  BY <1>2, <1>3
<1>5. new \in Seq(S) /\ Len(new) = n /\ DOMAIN new = 1 .. n
  BY <1>3, <1>4
<1>6. ASSUME NEW i \in 1 .. n, NEW j \in 1 .. n, new[i] = new[j]
      PROVE  i = j
  <2>1. ASSUME NEW k \in 2 .. n PROVE new[k] # f
    <3> DEFINE old == IF k <= p THEN k - 1 ELSE k
    <3>1. old \in 1 .. Len(items) /\ old # p
      BY <1>2, <1>3
    <3>2. new[k] = items[old] /\ k \in 1 .. n
      BY <1>3
    <3>3. QED
      BY <3>1, <3>2, <1>2
  <2>2. CASE i = 1 \/ j = 1
    <3>1. 1 \in 1 .. n /\ new[1] = f
      BY <1>3
    <3>2. i \in 2 .. n => new[i] # new[1]
      BY <2>1, <3>1
    <3>3. j \in 2 .. n => new[j] # new[1]
      BY <2>1, <3>1
    <3> HIDE DEF new
    <3>4. (i = 1 \/ i \in 2 .. n) /\ (j = 1 \/ j \in 2 .. n)
      BY <1>3
    <3>5. QED
      BY <2>2, <3>2, <3>3, <3>4, <1>6
  <2>3. CASE i # 1 /\ j # 1
    <3> DEFINE old(k) == IF k <= p THEN k - 1 ELSE k
    <3>1. old(i) \in DOMAIN items /\ old(j) \in DOMAIN items
      BY <2>3, <1>2, <1>3
    <3>2. new[i] = items[old(i)] /\ new[j] = items[old(j)]
      BY <2>3
    <3>3. old(i) = old(j)
      BY <3>1, <3>2, <1>6
    <3>4. QED
      BY <3>3, <2>3, <1>2
  <2>4. QED
    BY <2>2, <2>3
<1>7. QED
  BY <1>1, <1>3, <1>5, <1>6

-----------------------------------------------------------------------------
LaunchInv == /\ TypeOK /\ RecentDistinct
             /\ ProgressInv /\ JobInv /\ IniInv /\ CheatInv

LEMMA LaunchType ==
    ASSUME NEW rom \in Programs, NEW listed \in Games \cup Homebrews \cup Documents,
           NEW caller \in {"list", "auto", "plugin"},
           Launch(rom, listed, caller, Loaders(rom))
    PROVE  /\ job' \in Jobs /\ job'.rom = rom /\ job'.listed = listed /\ job'.caller = caller
           /\ job'.loader \in Loaders(rom)
           /\ rom \in Games =>
                 /\ job'.sav \in SaveFiles /\ job'.made \in SaveFiles
                 /\ job'.made = job'.sav \/ (job'.caller = "auto" /\ job'.sav.dir)
<1>1. PICK loader \in Loaders(rom), dir \in SaveDirs :
         job' = [rom |-> rom, listed |-> listed, caller |-> caller, loader |-> loader,
                 sav |-> IF rom \in Games THEN [dir |-> dir, rom |-> rom] ELSE NoSave,
                 made |-> IF ~(rom \in Games) THEN NoSave
                          ELSE IF caller = "auto" /\ dir THEN DotSave
                          ELSE [dir |-> dir, rom |-> rom]]
  BY DEF Launch
<1>2. rom \in Games => [dir |-> dir, rom |-> rom] \in SaveFiles
  BY DEF SaveFiles
<1>3. DotSave \in SaveFiles
  BY DEF SaveFiles
<1>4. loader \in {"bootstrap", "hb", "pico", "homebrew"}
  BY DEF Loaders
<1>5. QED
  BY <1>1, <1>2, <1>3, <1>4 DEF Jobs

LEMMA NoJobType == NoJob \in Jobs
BY DEF NoJob, Jobs

LEMMA BootIniType ==
    ASSUME NEW i \in Inis \cup {NoIni}, NEW d \in Donated
    PROVE  [(IF i = NoIni THEN EmptyIni ELSE i) EXCEPT !.donors = d] \in Inis
BY EmptyIniType DEF Inis, Donated

\* The startup search and the launch leave an INI of its type.
LEMMA InitDonorsType ==
    ASSUME TypeOK, InitDonors
    PROVE  ini' \in Inis \cup {NoIni} /\ nandMounted' \in BOOLEAN
<1>1. CASE Restricted(TRUE)
  <2>1. PICK mounts \in BOOLEAN, found \in SUBSET {Sdk50Key, Sdk5Key} :
          LET donors == Configured(Donors(ini), TRUE, mounts, found)
              new == [(IF ini = NoIni THEN EmptyIni ELSE ini) EXCEPT !.donors = donors]
          IN  /\ nandMounted' = MountedBy(Donors(ini), TRUE, mounts)
              /\ ini' \in IF donors = Donors(ini) THEN {ini} ELSE Saved(ini, new, EmptyIni)
    BY <1>1 DEF InitDonors
  <2> DEFINE donors == Configured(Donors(ini), TRUE, mounts, found)
             new == [(IF ini = NoIni THEN EmptyIni ELSE ini) EXCEPT !.donors = donors]
  <2>2. donors \in Donated
    BY DonorsType, ConfiguredType DEF TypeOK
  <2>3. new \in Inis
    BY <2>2, BootIniType DEF TypeOK
  <2>4. ini' \in {ini, new, EmptyIni}
    BY <2>1 DEF Saved
  <2>5. nandMounted' \in BOOLEAN
    BY <2>1 DEF MountedBy, TypeOK
  <2>6. QED
    BY <2>3, <2>4, <2>5, EmptyIniType DEF TypeOK
<1>2. CASE ~Restricted(TRUE)
  BY <1>2 DEF InitDonors, TypeOK
<1>3. QED
  BY <1>1, <1>2

\* What the launch of nds-bootstrap leaves as INI: none, the one that was there
\* on a card that cannot be written to, an empty one or the one for this launch.
LEMMA BootstrapIni ==
    ASSUME TypeOK, Bootstrap
    PROVE  /\ nandMounted' \in BOOLEAN
           /\ ini' \in Inis \cup {NoIni}
           /\ \/ ~writable
              \/ ini' \in {NoIni, EmptyIni}
              \/ ini'.rom = job.rom /\ ini'.sav = job.sav
<1>1. CASE ini' = OldIniRemoved(ini) /\ UNCHANGED nandMounted /\ Fail("ini")
  BY <1>1 DEF TypeOK, OldIniRemoved, Removed
<1>2. CASE ~ (ini' = OldIniRemoved(ini) /\ UNCHANGED nandMounted /\ Fail("ini"))
  <2> DEFINE clean == OldIniRemoved(ini)
             restricted == Restricted(job.loader = "bootstrap")
             donors(m, f) == Configured(Donors(clean), restricted, m, f)
             new(m, f) == [rom |-> job.rom, sav |-> job.sav, donors |-> donors(m, f)]
  <2>1. PICK mounts \in BOOLEAN, found \in SUBSET {Sdk50Key, Sdk5Key} :
          /\ nandMounted' = MountedBy(Donors(clean), restricted, mounts)
          /\ ini' \in Saved(clean, new(mounts, found), EmptyIni)
    BY <1>2 DEF Bootstrap
  <2>2. clean \in {ini, NoIni} /\ (writable => clean = NoIni)
    BY DEF OldIniRemoved, Removed
  <2>3. Donors(clean) \in Donated
    BY <2>2 DEF TypeOK, Donors, NoDonors, Inis, Donated
  <2>4. restricted \in BOOLEAN
    BY DEF Restricted, TypeOK
  <2>5. donors(mounts, found) \in Donated
    BY <2>3, <2>4, ConfiguredType
  <2> HIDE DEF clean, restricted, donors
  <2>6. new(mounts, found) \in Inis
    BY <2>5 DEF TypeOK, Jobs, Inis, Donated
  <2>7. ini' = clean \/ ini' \in {new(mounts, found), EmptyIni}
    BY <2>1 DEF Saved
  <2>8. nandMounted' \in BOOLEAN
    BY <2>1 DEF MountedBy, TypeOK
  <2>9. QED
    BY <2>2, <2>6, <2>7, <2>8, EmptyIniType DEF TypeOK
<1>3. QED
  BY <1>1, <1>2

-----------------------------------------------------------------------------
(* The types. *)

LEMMA TypeInit == Init => TypeOK
<1> SUFFICES ASSUME Init PROVE TypeOK
  OBVIOUS
<1>1. saves \in [SaveFiles -> Contents] /\ files \subseteq Paths
  BY DEF Init, Contents, Paths, NandPaths
<1>2. job \in Jobs /\ recent \in Seq(Games \cup Documents)
  BY NoJobType DEF Init
<1>3. progress \in 0 .. 2
  BY DEF Init
<1>4. music \in BOOLEAN /\ nandMounted \in BOOLEAN
  BY Zenon DEF Init
<1>5. /\ console \in Consoles /\ writable \in BOOLEAN /\ ini \in Inis \cup {NoIni}
      /\ cheatData \in Games \cup {NoCheats} /\ lastInfo \in Programs \cup {NoRom}
  BY DEF Init
<1>6. main = "off" /\ failedAt = "none"
  BY DEF Init
<1>7. QED
  BY <1>1, <1>2, <1>3, <1>4, <1>5, <1>6 DEF TypeOK

LEMMA TypeStep ==
    ASSUME LaunchInv, Next
    PROVE  TypeOK'
<1> USE DEF card, disk
<1>1. CASE EditCard
  <2>1. ini' \in Inis \cup {NoIni}
    <3>1. CASE UNCHANGED ini
      BY <3>1 DEF LaunchInv, TypeOK
    <3>2. CASE \E k \in DonorKeys, p \in HandPaths :
                  ini' = [(IF ini = NoIni THEN EmptyIni ELSE ini) EXCEPT !.donors[k] = p]
      <4>1. PICK k \in DonorKeys, p \in HandPaths :
                  ini' = [(IF ini = NoIni THEN EmptyIni ELSE ini) EXCEPT !.donors[k] = p]
        BY <3>2
      <4>2. p \in Paths
        BY LaunchAssumption DEF Paths, NandPaths
      <4>3. (IF ini = NoIni THEN EmptyIni ELSE ini) \in Inis
        BY EmptyIniType DEF LaunchInv, TypeOK
      <4>4. QED
        BY <4>1, <4>2, <4>3 DEF Inis
    <3>3. QED
      BY <1>1, <3>1, <3>2 DEF EditCard
  <2>2. files' \subseteq Paths
    BY <1>1, LaunchAssumption DEF EditCard, LaunchInv, TypeOK, Paths, NandPaths
  <2>3. writable' \in BOOLEAN
    BY <1>1 DEF EditCard, LaunchInv, TypeOK
  <2>4. UNCHANGED <<console, cheatData, saves, lastInfo, recent, main, job,
                    failedAt, progress, music, nandMounted>>
    BY <1>1 DEF EditCard
  <2>5. QED
    BY <2>1, <2>2, <2>3, <2>4 DEF LaunchInv, TypeOK
<1>2. CASE PowerOff
  <2>1. job' \in Jobs /\ main' = "off" /\ failedAt' = "none"
    BY <1>2, NoJobType DEF PowerOff
  <2>2. progress' \in 0 .. 2
    BY <1>2 DEF PowerOff
  <2>3. music' \in BOOLEAN /\ nandMounted' \in BOOLEAN
    BY Zenon, <1>2 DEF PowerOff
  <2>4. UNCHANGED <<card, disk>>
    BY <1>2 DEF PowerOff
  <2>5. QED
    BY <2>1, <2>2, <2>3, <2>4 DEF LaunchInv, TypeOK
<1>3. CASE PowerOn
  BY <1>3 DEF PowerOn, LaunchInv, TypeOK
<1>4. CASE InitDonors
  BY <1>4, InitDonorsType DEF InitDonors, LaunchInv, TypeOK
<1>5. CASE ReadLastInfo
  <2>1. job' \in Jobs
    BY <1>5, NoJobType DEF ReadLastInfo, LaunchInv, TypeOK, Jobs
  <2>2. lastInfo' \in Programs \cup {NoRom}
    BY <1>5 DEF ReadLastInfo, Saved, LaunchInv, TypeOK
  <2>3. QED
    BY <1>5, <2>1, <2>2 DEF ReadLastInfo, LaunchInv, TypeOK
<1>6. CASE Autorun
  <2>1. job' \in Jobs /\ main' \in {"save", "record", "menu"} /\ music' \in BOOLEAN
    <3>1. job.rom \in Programs \cup {NoRom}
      BY DEF LaunchInv, TypeOK, Jobs
    <3>2. QED
      BY <1>6, <3>1, LaunchType, NoJobType DEF Autorun, FirstStep, LaunchInv, TypeOK
  <2>2. QED
    BY <1>6, <2>1 DEF Autorun, LaunchInv, TypeOK
<1>7. CASE Select
  <2>1. job' \in Jobs /\ main' \in {"save", "record"}
    BY <1>7, LaunchType DEF Select, FirstStep
  <2>2. QED
    BY <1>7, <2>1 DEF Select, LaunchInv, TypeOK
<1>8. CASE SelectDocument
  <2>1. job' \in Jobs
    BY <1>8, LaunchType DEF SelectDocument
  <2>2. QED
    BY <1>8, <2>1 DEF SelectDocument, LaunchInv, TypeOK
<1>9. CASE InitSave
  <2>1. saves' \in [SaveFiles -> Contents]
    BY <1>9 DEF InitSave, LaunchInv, TypeOK, Contents
  <2>2. main' \in {"record", "failed"} /\ failedAt' \in {failedAt, "save"}
    BY <1>9 DEF InitSave, Fail
  <2>3. QED
    BY <1>9, <2>1, <2>2 DEF InitSave, LaunchInv, TypeOK
<1>10. CASE SaveLastInfo
  <2>1. lastInfo' \in Programs \cup {NoRom}
    BY <1>10 DEF SaveLastInfo, Saved, LaunchInv, TypeOK, Jobs
  <2>2. QED
    BY <1>10, <2>1 DEF SaveLastInfo, LaunchInv, TypeOK
<1>11. CASE AddToRecent
  <2>1. recent' \in Seq(Games \cup Documents)
    <3>1. CASE recent' = recent
      BY <3>1 DEF LaunchInv, TypeOK
    <3>2. CASE recent' = <<>>
      BY <3>2
    <3>3. CASE job.listed \notin Homebrews /\ recent' = Inserted(recent, job.listed)
      <4>1. job.listed \in Games \cup Documents
        BY <3>3, <1>11 DEF AddToRecent, LaunchInv, JobInv, PastSave, TypeOK, Jobs
      <4>2. QED
        BY <4>1, <3>3, InsertedDistinct DEF LaunchInv, TypeOK, RecentDistinct
    <3>4. QED
      BY <1>11, <3>1, <3>2, <3>3 DEF AddToRecent, Saved
  <2>2. QED
    BY <1>11, <2>1 DEF AddToRecent, LaunchInv, TypeOK
<1>12. CASE StartLoader
  <2>1. progress \in 0 .. 1
    BY <1>12 DEF StartLoader, LaunchInv, ProgressInv, TypeOK
  <2>2. CASE Bootstrap
    <3>1. ini' \in Inis \cup {NoIni} /\ nandMounted' \in BOOLEAN
      BY <2>2, BootstrapIni DEF LaunchInv
    <3>2. progress' \in 0 .. 2
      BY <2>1, <2>2 DEF Bootstrap
    <3>3. main' \in {"cheats", "run", "failed"} /\ failedAt' \in {failedAt, "ini"}
      BY <2>2 DEF Bootstrap, Fail
    <3>4. UNCHANGED <<card, cheatData, saves, lastInfo, recent, job, music>>
      BY <1>12 DEF StartLoader
    <3>5. QED
      BY <3>1, <3>2, <3>3, <3>4 DEF LaunchInv, TypeOK
  <2>3. CASE LoaderMissing
    BY <1>12, <2>1, <2>3 DEF StartLoader, LoaderMissing, Popped, Fail, LaunchInv, TypeOK
  <2>4. CASE OtherLoader
    BY <1>12, <2>1, <2>4 DEF StartLoader, OtherLoader, Fail, LaunchInv, TypeOK
  <2>5. QED
    BY <1>12, <2>2, <2>3, <2>4 DEF StartLoader
<1>13. CASE PrepareCheats
  <2>1. cheatData' \in Games \cup {NoCheats}
    BY <1>13 DEF PrepareCheats, Removed, LaunchInv, TypeOK, JobInv, PastSave
  <2>2. QED
    BY <1>13, <2>1 DEF PrepareCheats, Fail, LaunchInv, TypeOK
<1>14. CASE RunBootstrap
  BY <1>14 DEF RunBootstrap, Popped, Fail, LaunchInv, TypeOK
<1>15. CASE ReturnToMenu
  <2>1. job' \in Jobs /\ main' = "menu"
    BY <1>15, NoJobType DEF ReturnToMenu
  <2>2. progress' \in 0 .. 2
    BY <1>15 DEF ReturnToMenu, Popped, LaunchInv, TypeOK
  <2>3. music' \in BOOLEAN
    BY <1>15 DEF ReturnToMenu, LaunchInv, TypeOK
  <2>4. UNCHANGED <<card, disk, failedAt, nandMounted>>
    BY <1>15 DEF ReturnToMenu
  <2>5. QED
    BY <2>1, <2>2, <2>3, <2>4 DEF LaunchInv, TypeOK
<1>16. CASE Play
  BY <1>16 DEF Play, LaunchInv, TypeOK, Contents
<1>17. QED
  BY <1>1, <1>2, <1>3, <1>4, <1>5, <1>6, <1>7, <1>8, <1>9, <1>10, <1>11, <1>12,
     <1>13, <1>14, <1>15, <1>16 DEF Next

-----------------------------------------------------------------------------
(* The other conjuncts of the invariant. *)

LEMMA ProgressStep ==
    ASSUME LaunchInv, Next
    PROVE  ProgressInv'
<1> USE DEF ProgressInv, Popped, Fail
<1> progress \in 0 .. 2
  BY DEF LaunchInv, TypeOK
<1>1. CASE EditCard
  BY <1>1 DEF EditCard, LaunchInv
<1>2. CASE PowerOff
  BY <1>2 DEF PowerOff, LaunchInv
<1>3. CASE PowerOn
  BY <1>3 DEF PowerOn, LaunchInv
<1>4. CASE InitDonors
  BY <1>4 DEF InitDonors, LaunchInv
<1>5. CASE ReadLastInfo
  BY <1>5 DEF ReadLastInfo, LaunchInv
<1>6. CASE Autorun
  BY <1>6 DEF Autorun, FirstStep, LaunchInv
<1>7. CASE Select
  <2>1. job'.caller = "list" /\ main' \in {"save", "record"}
    BY <1>7, LaunchType DEF Select, FirstStep
  <2>2. QED
    BY <1>7, <2>1 DEF Select, LaunchInv
<1>8. CASE SelectDocument
  BY <1>8 DEF SelectDocument, LaunchInv
<1>9. CASE InitSave
  BY <1>9 DEF InitSave, LaunchInv
<1>10. CASE SaveLastInfo
  BY <1>10 DEF SaveLastInfo, LaunchInv
<1>11. CASE AddToRecent
  BY <1>11 DEF AddToRecent, LaunchInv
<1>12. CASE StartLoader
  <2>1. progress \in 0 .. 1 /\ (job.caller # "list" => progress = 0)
    BY <1>12 DEF StartLoader, LaunchInv
  <2>2. job' = job /\ (Bootstrap \/ LoaderMissing \/ OtherLoader)
    BY <1>12 DEF StartLoader
  <2>3. main' \in {"cheats", "run", "failed", "game"}
    BY <2>2 DEF Bootstrap, LoaderMissing, OtherLoader
  <2>4. progress' \in 0 .. progress + 1
    BY <2>1, <2>2 DEF Bootstrap, LoaderMissing, OtherLoader
  <2>5. QED
    BY <2>1, <2>2, <2>3, <2>4
<1>13. CASE PrepareCheats
  BY <1>13 DEF PrepareCheats, LaunchInv
<1>14. CASE RunBootstrap
  BY <1>14 DEF RunBootstrap, LaunchInv
<1>15. CASE ReturnToMenu
  BY <1>15 DEF ReturnToMenu, LaunchInv
<1>16. CASE Play
  BY <1>16 DEF Play, LaunchInv
<1>17. QED
  BY <1>1, <1>2, <1>3, <1>4, <1>5, <1>6, <1>7, <1>8, <1>9, <1>10, <1>11, <1>12,
     <1>13, <1>14, <1>15, <1>16 DEF Next

LEMMA RecentStep ==
    ASSUME LaunchInv, Next
    PROVE  RecentDistinct'
<1> USE DEF disk
<1>1. CASE AddToRecent
  <2>1. CASE recent' = recent
    BY <2>1 DEF LaunchInv, RecentDistinct
  <2>2. CASE recent' = <<>>
    BY <2>2, LaunchAssumption DEF RecentDistinct
  <2>3. CASE job.listed \notin Homebrews /\ recent' = Inserted(recent, job.listed)
    <3>1. job.listed \in Games \cup Documents
      BY <2>3, <1>1 DEF AddToRecent, LaunchInv, JobInv, PastSave, TypeOK, Jobs
    <3>2. QED
      BY <3>1, <2>3, InsertedDistinct DEF LaunchInv, TypeOK, RecentDistinct
  <2>4. QED
    BY <1>1, <2>1, <2>2, <2>3 DEF AddToRecent, Saved
<1>2. CASE UNCHANGED recent
  BY <1>2 DEF LaunchInv, RecentDistinct
<1>3. QED
  BY <1>1, <1>2 DEF Next, EditCard, PowerOff, PowerOn, InitDonors, ReadLastInfo, Autorun,
     Select, SelectDocument, InitSave, SaveLastInfo, StartLoader, PrepareCheats,
     RunBootstrap, ReturnToMenu, Play

LEMMA JobStep ==
    ASSUME LaunchInv, Next
    PROVE  JobInv'
<1> USE DEF JobInv, PastSave, Fail
<1>1. CASE EditCard
  BY <1>1 DEF EditCard, LaunchInv
<1>2. CASE PowerOff
  BY <1>2 DEF PowerOff, NoJob
<1>3. CASE PowerOn
  BY <1>3 DEF PowerOn, LaunchInv
<1>4. CASE InitDonors
  BY <1>4 DEF InitDonors, LaunchInv
<1>5. CASE ReadLastInfo
  BY <1>5 DEF ReadLastInfo, NoJob
<1>6. CASE Autorun
  <2>1. CASE main' = "menu" /\ job' = NoJob
    BY <2>1 DEF NoJob
  <2>2. CASE /\ job.rom # NoRom /\ main' = FirstStep(job.rom)
             /\ Launch(job.rom, job.rom, "auto", Loaders(job.rom))
    <3>1. job.rom \in Programs
      BY <2>2 DEF LaunchInv, TypeOK, Jobs
    <3>2. QED
      BY <2>2, <3>1, LaunchType, LaunchAssumption DEF FirstStep, Loaders
  <2>3. QED
    BY <1>6, <2>1, <2>2 DEF Autorun
<1>7. CASE Select
  <2>1. PICK rom \in Programs :
           Launch(rom, rom, "list", Loaders(rom)) /\ main' = FirstStep(rom)
    BY <1>7 DEF Select
  <2>2. QED
    BY <2>1, LaunchType, LaunchAssumption DEF FirstStep, Loaders
<1>8. CASE SelectDocument
  <2>1. PICK doc \in Documents, rom \in Homebrews : Launch(rom, doc, "plugin", Loaders(rom))
    BY <1>8 DEF SelectDocument
  <2>2. rom \notin Games /\ main' = "recent"
    BY <1>8, LaunchAssumption DEF SelectDocument
  <2>3. QED
    BY <2>1, <2>2, LaunchType, LaunchAssumption DEF Loaders
<1>9. CASE InitSave
  <2>1. saves \in [SaveFiles -> Contents] /\ job' = job /\ writable' = writable
    BY <1>9 DEF InitSave, LaunchInv, TypeOK, card
  <2>2. CASE main' = "failed"
    BY <1>9, <2>1, <2>2 DEF InitSave, LaunchInv
  <2>3. CASE main' = "record"
    <3>1. /\ writable
          /\ saves' = IF Ready(job.made) THEN saves ELSE [saves EXCEPT ![job.made] = "full"]
      BY <1>9, <2>3 DEF InitSave
    <3>2. job.made \in SaveFiles /\ main = "save"
      BY <1>9 DEF InitSave, LaunchInv
    <3>3. Ready(job.made)'
      BY <2>1, <3>1, <3>2 DEF Ready
    <3>4. QED
      BY <1>9, <2>1, <2>3, <3>1, <3>2, <3>3 DEF LaunchInv
  <2>4. QED
    BY <1>9, <2>2, <2>3 DEF InitSave
<1>10. CASE SaveLastInfo
  BY <1>10 DEF SaveLastInfo, LaunchInv, card, Ready
<1>11. CASE AddToRecent
  BY <1>11 DEF AddToRecent, LaunchInv, card, Ready
<1>12. CASE StartLoader
  <2>1. /\ main = "loader" /\ (Bootstrap \/ LoaderMissing \/ OtherLoader)
        /\ UNCHANGED <<card, saves, job>>
    BY <1>12 DEF StartLoader
  <2>2. \/ main' \in {"failed", "game"}
        \/ main' = "cheats" /\ job.loader = "bootstrap"
        \/ main' = "run" /\ job.loader = "hb"
    BY <2>1 DEF Bootstrap, LoaderMissing, OtherLoader
  <2>3. QED
    BY <2>1, <2>2 DEF LaunchInv, card, Ready
<1>13. CASE PrepareCheats
  BY <1>13 DEF PrepareCheats, LaunchInv, card, Ready
<1>14. CASE RunBootstrap
  BY <1>14 DEF RunBootstrap, LaunchInv, card, disk, Ready
<1>15. CASE ReturnToMenu
  BY <1>15 DEF ReturnToMenu, NoJob
<1>16. CASE Play
  <2>1. main = "game" /\ UNCHANGED <<card, main, job>>
    BY <1>16 DEF Play
  <2>2. \A f \in SaveFiles : Ready(f) => Ready(f)'
    BY <1>16 DEF Play, Ready, LaunchInv, TypeOK
  <2>3. QED
    BY <2>1, <2>2 DEF LaunchInv, card
<1>17. QED
  BY <1>1, <1>2, <1>3, <1>4, <1>5, <1>6, <1>7, <1>8, <1>9, <1>10, <1>11, <1>12,
     <1>13, <1>14, <1>15, <1>16 DEF Next

\* Only the launch of nds-bootstrap brings main to the steps IniInv speaks of
\* with a bootstrap loader; from there on no step but PowerOff writes the INI.
LEMMA IniStep ==
    ASSUME LaunchInv, Next
    PROVE  IniInv'
<1> USE DEF IniInv
<1>1. CASE StartLoader
  <2>1. /\ Bootstrap \/ LoaderMissing \/ OtherLoader
        /\ UNCHANGED <<card, job>>
    BY <1>1 DEF StartLoader
  <2>2. CASE Bootstrap
    <3>1. main = "loader" /\ TypeOK /\ JobInv
      BY <1>1 DEF StartLoader, LaunchInv
    <3>2. job.loader = "bootstrap" => writable
      BY <3>1 DEF JobInv, PastSave
    <3>3. \/ ~writable
          \/ ini' \in {NoIni, EmptyIni}
          \/ ini'.rom = job.rom /\ ini'.sav = job.sav
      BY <3>1, <2>2, BootstrapIni
    <3>4. EmptyIni' = EmptyIni /\ writable' = writable /\ job' = job
      BY <2>1 DEF EmptyIni, NoDonors, card
    <3>5. QED
      BY <3>2, <3>3, <3>4
  <2>3. CASE LoaderMissing \/ OtherLoader
    BY <2>1, <2>3 DEF LoaderMissing, OtherLoader, Fail
  <2>4. QED
    BY <2>1, <2>2, <2>3
<1>2. CASE PrepareCheats \/ RunBootstrap \/ Play
  <2>1. main \in {"cheats", "run", "game"} /\ UNCHANGED <<card, job, ini>>
    BY <1>2 DEF PrepareCheats, RunBootstrap, Play, disk
  <2>2. QED
    BY <2>1 DEF LaunchInv, card
<1>3. CASE /\ ~StartLoader /\ ~PrepareCheats /\ ~RunBootstrap /\ ~Play
  <2>1. main' \notin {"cheats", "run", "game"}
    BY <1>3 DEF Next, EditCard, PowerOff, PowerOn, InitDonors, ReadLastInfo, Autorun,
       Select, SelectDocument, InitSave, SaveLastInfo, AddToRecent, ReturnToMenu,
       FirstStep, Fail
  <2>2. QED
    BY <2>1
<1>4. QED
  BY <1>1, <1>2, <1>3

LEMMA CheatStep ==
    ASSUME LaunchInv, Next
    PROVE  CheatInv'
<1> USE DEF CheatInv
<1>1. CASE StartLoader
  BY <1>1 DEF StartLoader, Bootstrap, LoaderMissing, OtherLoader, Fail
<1>2. CASE PrepareCheats
  <2>1. writable
    BY <1>2 DEF PrepareCheats, LaunchInv, JobInv, PastSave
  <2>2. QED
    BY <1>2, <2>1 DEF PrepareCheats, Removed
<1>3. CASE RunBootstrap \/ Play
  <2>1. main \in {"run", "game"} /\ UNCHANGED <<job, cheatData>>
    BY <1>3 DEF RunBootstrap, Play, disk
  <2>2. QED
    BY <2>1 DEF LaunchInv
<1>4. CASE /\ ~StartLoader /\ ~PrepareCheats /\ ~RunBootstrap /\ ~Play
  <2>1. main' \notin {"run", "game"}
    BY <1>4 DEF Next, EditCard, PowerOff, PowerOn, InitDonors, ReadLastInfo, Autorun,
       Select, SelectDocument, InitSave, SaveLastInfo, AddToRecent, ReturnToMenu,
       FirstStep, Fail
  <2>2. QED
    BY <2>1
<1>5. QED
  BY <1>1, <1>2, <1>3, <1>4

-----------------------------------------------------------------------------
(* The theorems. *)

LEMMA LaunchInvInit == Init => LaunchInv
<1> SUFFICES ASSUME Init PROVE LaunchInv
  OBVIOUS
<1>1. TypeOK
  BY TypeInit
<1>2. RecentDistinct
  BY LaunchAssumption DEF Init, RecentDistinct
<1>3. ProgressInv /\ JobInv /\ IniInv /\ CheatInv
  BY DEF Init, NoJob, PastSave, ProgressInv, JobInv, IniInv, CheatInv
<1>4. QED
  BY <1>1, <1>2, <1>3 DEF LaunchInv

LEMMA LaunchInvStep == LaunchInv /\ [Next]_vars => LaunchInv'
<1> SUFFICES ASSUME LaunchInv, [Next]_vars PROVE LaunchInv'
  OBVIOUS
<1>1. CASE Next
  BY <1>1, TypeStep, RecentStep, ProgressStep, JobStep, IniStep, CheatStep DEF LaunchInv
<1>2. CASE UNCHANGED vars
  <2>1. TypeOK'
    BY <1>2 DEF LaunchInv, TypeOK, vars, card, disk
  <2>2. RecentDistinct' /\ ProgressInv' /\ IniInv' /\ CheatInv'
    BY <1>2 DEF LaunchInv, RecentDistinct, ProgressInv, IniInv, CheatInv, vars, card, disk
  <2>3. JobInv'
    BY <1>2 DEF LaunchInv, JobInv, Ready, vars, card, disk
  <2>4. QED
    BY <2>1, <2>2, <2>3 DEF LaunchInv
<1>3. QED
  BY <1>1, <1>2

\* What the steps of a launch count on holds at every place of it: the invariant
\* behind the theorems below (romlauncher.cpp and the launchers).
THEOREM LaunchInvariant == Spec => []LaunchInv
BY LaunchInvInit, LaunchInvStep, PTL DEF Spec

\* Every variable keeps its type (the state of romlauncher.cpp, the launchers
\* and the files they write).
THEOREM GameLaunchTypeOK == Spec => []TypeOK
<1>1. LaunchInv => TypeOK
  BY DEF LaunchInv
<1>2. QED
  BY <1>1, LaunchInvariant, PTL

\* nds-bootstrap never starts with the INI or the cheats of another launch
\* (NdsBootstrapLauncher.cpp removes and rewrites both).
THEOREM GameLaunchNoStaleBoot == Spec => []NoStaleBoot
<1>1. LaunchInv => NoStaleBoot
  BY DEF LaunchInv, IniInv, CheatInv, NoStaleBoot
<1>2. QED
  BY <1>1, LaunchInvariant, PTL

\* A game that starts has its save file, except when autorun looks for it in
\* the wrong place (romlauncher.cpp, initializeSaveFile).
THEOREM GameLaunchSaveReady == Spec => []SaveReady
<1>1. LaunchInv => SaveReady
  BY DEF LaunchInv, JobInv, PastSave, SaveReady
<1>2. QED
  BY <1>1, LaunchInvariant, PTL

\* The recently played list has no duplicates and at most MaxRecent entries
\* (recent.cpp, AddToRecent).
THEOREM GameLaunchRecentDistinct == Spec => []RecentDistinct
<1>1. LaunchInv => RecentDistinct
  BY DEF LaunchInv
<1>2. QED
  BY <1>1, LaunchInvariant, PTL

\* No step of a launch, and no loss of power, loses a save a game has written
\* (savemngr.cpp opens saves without truncating them).
THEOREM GameLaunchPlayedSaveKept == Spec => PlayedSaveKept
<1>1. LaunchInv /\ [Next]_vars =>
         [\A f \in SaveFiles : saves[f] = "played" => saves'[f] = "played"]_vars
  <2> SUFFICES ASSUME LaunchInv, [Next]_vars, NEW f \in SaveFiles, saves[f] = "played"
               PROVE  saves'[f] = "played"
    OBVIOUS
  <2>1. saves \in [SaveFiles -> Contents]
    BY DEF LaunchInv, TypeOK
  <2>2. CASE InitSave
    BY <2>1, <2>2 DEF InitSave, Ready
  <2>3. CASE Play
    BY <2>1, <2>3 DEF Play
  <2>4. CASE UNCHANGED saves
    BY <2>4
  <2>5. QED
    BY <2>2, <2>3, <2>4 DEF Next, EditCard, PowerOff, PowerOn, InitDonors, ReadLastInfo,
       Autorun, Select, SelectDocument, SaveLastInfo, AddToRecent, StartLoader,
       PrepareCheats, RunBootstrap, ReturnToMenu, vars, disk
<1>2. QED
  BY <1>1, LaunchInvariant, PTL DEF Spec, PlayedSaveKept

-----------------------------------------------------------------------------
(* The way back to the menu. *)

OwnWindowUp == {"ini", "cheats", "run"}    \* failures with the launcher's window shown

\* A save that failed has not stopped the music; a launch that failed before
\* the launcher's own window has at most the one its caller takes away.
MenuInv ==
    /\ MenuBack
    /\ main = "save" /\ job.caller # "auto" => music
    /\ main = "failed" /\ failedAt = "save" /\ job.caller # "auto" => music
    /\ main = "failed" /\ failedAt \notin OwnWindowUp =>
          progress <= (IF job.caller = "list" THEN 1 ELSE 0)

LEMMA MenuStep ==
    ASSUME LaunchInv, MenuInv, Next
    PROVE  MenuInv'
<1> USE DEF MenuInv, MenuBack, OwnWindowUp, card, disk
<1>0. /\ progress \in 0 .. 2 /\ music \in BOOLEAN /\ job.caller \in {"list", "auto", "plugin"}
      /\ ProgressInv
  BY DEF LaunchInv, TypeOK, Jobs
<1>1. CASE EditCard  BY <1>0, <1>1 DEF EditCard
<1>2. CASE PowerOff \/ PowerOn  BY <1>2 DEF PowerOff, PowerOn
<1>3. CASE InitDonors \/ ReadLastInfo  BY <1>3 DEF InitDonors, ReadLastInfo
<1>4. CASE Autorun
  <2>1. progress = 0 /\ progress' = 0
    BY <1>0, <1>4 DEF Autorun, ProgressInv
  <2>2. CASE main' = "menu" /\ music' = TRUE
    BY <2>1, <2>2
  <2>3. CASE job.rom # NoRom /\ Launch(job.rom, job.rom, "auto", Loaders(job.rom))
               /\ main' = FirstStep(job.rom)
    <3>1. job'.caller = "auto" /\ main' \in {"save", "record"}
      BY <2>3 DEF Launch, FirstStep
    <3> QED
      BY <3>1
  <2> QED
    BY <1>4, <2>2, <2>3 DEF Autorun
<1>5. CASE Select
  <2>1. main = "menu" /\ music' = music /\ main' \in {"save", "record"}
    BY <1>5 DEF Select, FirstStep
  <2> QED
    BY <2>1
<1>6. CASE SelectDocument \/ SaveLastInfo \/ AddToRecent \/ Play
  BY <1>6 DEF SelectDocument, SaveLastInfo, AddToRecent, Play
<1>7. CASE InitSave
  <2>1. UNCHANGED <<job, progress, music>> /\ main = "save"
        /\ (main' = "record" \/ (main' = "failed" /\ failedAt' = "save"))
    BY <1>7 DEF InitSave, Fail
  <2>2. progress <= (IF job.caller = "list" THEN 1 ELSE 0)
    BY <1>0, <2>1 DEF ProgressInv
  <2> QED
    BY <2>1, <2>2
<1>8. CASE StartLoader
  <2>1. main = "loader" /\ UNCHANGED <<job, music>> /\ (Bootstrap \/ LoaderMissing \/ OtherLoader)
    BY <1>8 DEF StartLoader
  <2>2. progress <= (IF job.caller = "list" THEN 1 ELSE 0)
    BY <1>0, <2>1 DEF ProgressInv
  <2>3. CASE Bootstrap
    <3>1. main' \in {"cheats", "run"} \/ (main' = "failed" /\ failedAt' = "ini")
      BY <2>3 DEF Bootstrap, Fail
    <3> QED
      BY <3>1
  <2>4. CASE LoaderMissing
    <3>1. main' = "failed" /\ failedAt' = "loader" /\ progress' <= progress
      BY <1>0, <2>4 DEF LoaderMissing, Fail, Popped
    <3>2. progress' \in 0 .. 2
      BY <1>0, <2>4 DEF LoaderMissing, Popped
    <3> QED
      BY <1>0, <2>1, <2>2, <3>1, <3>2
  <2>5. CASE OtherLoader
    BY <2>5 DEF OtherLoader, Fail
  <2> QED
    BY <2>1, <2>3, <2>4, <2>5
<1>9. CASE PrepareCheats \/ RunBootstrap
  BY <1>9 DEF PrepareCheats, RunBootstrap, Fail
<1>10. CASE ReturnToMenu
  <2>1. main = "failed" /\ main' = "menu" /\ failedAt' = failedAt
    BY <1>10 DEF ReturnToMenu
  <2>2. music'
    BY <1>0, <1>10, <2>1 DEF ReturnToMenu
  <2>3. failedAt \notin OwnWindowUp => progress' = 0
    BY <1>0, <1>10, <2>1 DEF ReturnToMenu, Popped
  <2> QED
    BY <2>1, <2>2, <2>3
<1> QED
  BY <1>1, <1>2, <1>3, <1>4, <1>5, <1>6, <1>7, <1>8, <1>9, <1>10 DEF Next

\* Whatever made a launch fail, the menu comes back with its music, and with
\* nothing in front of it unless the launcher's own window was up (cMainWnd,
\* launchRom, the launchers' early returns).
THEOREM GameLaunchMenuBack == Spec => []MenuBack
<1>1. Init => MenuInv
  BY DEF Init, MenuInv, MenuBack
<1>2. LaunchInv /\ MenuInv /\ [Next]_vars => MenuInv'
  <2>1. LaunchInv /\ MenuInv /\ UNCHANGED vars => MenuInv'
    BY DEF MenuInv, MenuBack, vars
  <2> QED
    BY <2>1, MenuStep
<1>3. MenuInv => MenuBack
  BY DEF MenuInv
<1> QED
  BY <1>1, <1>2, <1>3, LaunchInvariant, PTL DEF Spec

-----------------------------------------------------------------------------
(* The donors at startup. *)

Untouched(k) == \/ ini.donors[k] \in NandPaths /\ ~nandMounted'
                \/ ini.donors[k] = "sd" /\ "sd" \in files

\* Where the NAND stays shut nothing is searched, and a path into it counts as
\* there; a path on the card counts as there if its file is.
LEMMA ConfiguredKeeps ==
    ASSUME NEW prev \in Donated, NEW m \in BOOLEAN, NEW found, NEW k \in DonorKeys,
           console.dsi,
           \/ prev[k] \in NandPaths /\ ~MountedBy(prev, TRUE, m)
           \/ prev[k] = "sd" /\ "sd" \in files
    PROVE  Configured(prev, TRUE, m, found)[k] = prev[k]
<1> DEFINE mounted == MountedBy(prev, TRUE, m)
<1>1. Kept(prev[k], mounted) = prev[k]
  BY DEF Kept, NandPaths
<1>2. prev[k] # NoPath
  BY AbsenceAssumption DEF Paths, NandPaths
<1> QED
  BY <1>1, <1>2 DEF Configured

\* Unless the card refuses the file, configuring the donors as the menu starts
\* leaves the rest of the INI alone and drops no donor that is there or cannot be
\* looked at (initializeNdsBootstrapDonors).
THEOREM GameLaunchStartupPreserves == Spec => StartupPreserves
<1>1. ASSUME LaunchInv, [Next]_vars, main = "donors", ini # NoIni, ini' # EmptyIni, main' = "resume"
      PROVE  /\ ini' # NoIni /\ ini'.rom = ini.rom /\ ini'.sav = ini.sav
             /\ \A k \in DonorKeys : Untouched(k) => ini'.donors[k] = ini.donors[k]
  <2>1. InitDonors
    BY <1>1 DEF Next, EditCard, PowerOff, PowerOn, ReadLastInfo, Autorun, Select, SelectDocument,
       InitSave, SaveLastInfo, AddToRecent, StartLoader, PrepareCheats, RunBootstrap,
       ReturnToMenu, Play, vars
  <2>2. CASE ini' = ini
    BY <1>1, <2>2
  <2>3. CASE ini' # ini
    <3>1. Restricted(TRUE)
      BY <2>1, <2>3 DEF InitDonors
    <3>2. PICK m \in BOOLEAN, found \in SUBSET {Sdk50Key, Sdk5Key} :
             /\ nandMounted' = MountedBy(Donors(ini), TRUE, m)
             /\ ini' = [ini EXCEPT !.donors = Configured(Donors(ini), TRUE, m, found)]
      BY <1>1, <2>1, <2>3, <3>1 DEF InitDonors, Saved
    <3>3. ini \in Inis /\ Donors(ini) = ini.donors /\ ini.donors \in Donated /\ console.dsi
      BY <1>1, <3>1 DEF LaunchInv, TypeOK, Donors, Inis, Donated, Restricted
    <3> DEFINE donors == Configured(Donors(ini), TRUE, m, found)
    <3>4. donors \in Donated
      BY <3>3, ConfiguredType
    <3>5. ASSUME NEW k \in DonorKeys, Untouched(k) PROVE donors[k] = ini.donors[k]
      <4> DEFINE prev == Donors(ini)
      <4>1. prev \in Donated /\ prev = ini.donors /\ console.dsi
        BY <3>3
      <4>2. \/ prev[k] \in NandPaths /\ ~MountedBy(prev, TRUE, m)
            \/ prev[k] = "sd" /\ "sd" \in files
        BY <3>2, <3>5, <4>1 DEF Untouched
      <4> HIDE DEF prev
      <4>3. Configured(prev, TRUE, m, found)[k] = prev[k]
        BY <4>1, <4>2, ConfiguredKeeps
      <4> QED
        BY <4>1, <4>3 DEF prev
    <3> HIDE DEF donors
    <3>6. ini' = [ini EXCEPT !.donors = donors]
      BY <3>2 DEF donors
    <3>7. ini'.rom = ini.rom /\ ini'.sav = ini.sav /\ ini'.donors = donors /\ ini' \in Inis
      BY <3>3, <3>4, <3>6 DEF Inis, Donated
    <3> QED
      BY <3>5, <3>7, AbsenceAssumption
  <2> QED
    BY <2>2, <2>3
<1>2. LaunchInv /\ [Next]_vars =>
         [main = "donors" /\ ini # NoIni /\ ini' # EmptyIni /\ main' = "resume" =>
            /\ ini' # NoIni /\ ini'.rom = ini.rom /\ ini'.sav = ini.sav
            /\ \A k \in DonorKeys :
                  (\/ ini.donors[k] \in NandPaths /\ ~nandMounted'
                   \/ ini.donors[k] = "sd" /\ "sd" \in files)
                  => ini'.donors[k] = ini.donors[k]]_vars
  BY <1>1 DEF Untouched
<1> QED
  BY <1>2, LaunchInvariant, PTL DEF Spec, StartupPreserves

-----------------------------------------------------------------------------
(* tonccpy and __toncset (HalfwordCopy), for video memory that drops       *)
(* writes of one byte, change exactly the bytes asked, for every memory,   *)
(* alignment and size.                                                     *)


(* A memory of n bytes.                                                      *)
MemoryOf(n, mem) == mem = [a \in 0 .. (n - 1) |-> mem[a]]

(* A fill of the memory is a memory over the same addresses.                 *)
LEMMA FilledDomain ==
    ASSUME NEW mem, NEW p, NEW len, NEW src, NEW o
    PROVE  DOMAIN Filled(mem, p, len, src, o) = DOMAIN mem
BY DEF Filled

(* What a filled memory holds at an address.                                 *)
LEMMA FilledAt ==
    ASSUME NEW mem, NEW p, NEW len, NEW src, NEW o, NEW a \in DOMAIN mem
    PROVE  Filled(mem, p, len, src, o)[a] =
               IF p <= a /\ a < p + len THEN src[o + (a - p)] ELSE mem[a]
BY DEF Filled

(* Filling a range and then the range behind it fills the two together.      *)
LEMMA FilledTwice ==
    ASSUME NEW n \in Nat, NEW mem, MemoryOf(n, mem),
           NEW src, NEW p \in Nat, NEW o \in Nat, NEW l1 \in Nat, NEW l2 \in Nat,
           NEW q, q = p + l1, NEW r, r = o + l1, NEW l, l = l1 + l2
    PROVE  Filled(Filled(mem, p, l1, src, o), q, l2, src, r) = Filled(mem, p, l, src, o)
<1> DEFINE m1 == Filled(mem, p, l1, src, o)
           m2 == Filled(m1, q, l2, src, r)
           m3 == Filled(mem, p, l, src, o)
<1>d. DOMAIN mem = 0 .. (n - 1)
  BY DEF MemoryOf
<1>1. DOMAIN m1 = 0 .. (n - 1) /\ DOMAIN m2 = 0 .. (n - 1) /\ DOMAIN m3 = 0 .. (n - 1)
  BY <1>d, FilledDomain
<1>2. ASSUME NEW a \in 0 .. (n - 1) PROVE m2[a] = m3[a]
  <2>1. m1[a] = IF p <= a /\ a < p + l1 THEN src[o + (a - p)] ELSE mem[a]
    BY <1>d, FilledAt
  <2>2. m2[a] = IF p + l1 <= a /\ a < (p + l1) + l2
                THEN src[(o + l1) + (a - (p + l1))] ELSE m1[a]
    BY <1>1, FilledAt
  <2>3. m3[a] = IF p <= a /\ a < p + (l1 + l2) THEN src[o + (a - p)] ELSE mem[a]
    <3>1. m3[a] = IF p <= a /\ a < p + l THEN src[o + (a - p)] ELSE mem[a]
      BY <1>d, FilledAt
    <3> QED  BY <3>1
  <2>4. (o + l1) + (a - (p + l1)) = o + (a - p)
    BY SMT
  <2> HIDE DEF m1, m2, m3
  <2>5. CASE p + l1 <= a
    <3>1. ~(a < p + l1)
      BY <2>5, SMT
    <3>2. (a < (p + l1) + l2) <=> (a < p + (l1 + l2))
      BY SMT
    <3>3. p <= a
      BY <2>5, SMT
    <3> QED  BY <2>1, <2>2, <2>3, <2>4, <2>5, <3>1, <3>2, <3>3
  <2>6. CASE ~(p + l1 <= a)
    <3>1. a < p + l1 /\ a < p + (l1 + l2)
      BY <2>6, SMT
    <3> QED  BY <2>1, <2>2, <2>3, <2>6, <3>1
  <2> QED  BY <2>5, <2>6
<1>3. m2 = [a \in 0 .. (n - 1) |-> m2[a]] /\ m3 = [a \in 0 .. (n - 1) |-> m3[a]]
  BY <1>1 DEF Filled
<1> HIDE DEF m1, m2, m3
<1>4. m2 = m3
  BY <1>2, <1>3, Zenon
<1> QED  BY <1>4 DEF m1, m2, m3

(* The odd byte at the end is a fill of one byte.                            *)
LEMMA TailPutFills ==
    ASSUME NEW n \in Nat, NEW mem, MemoryOf(n, mem),
           NEW src, NEW p \in Nat, NEW o \in Nat, NEW left \in Nat,
           p + (left % 2) <= n
    PROVE  TailPut(mem, p, o, left, src) = Filled(mem, p, left % 2, src, o)
<1>1. left % 2 = 0 \/ left % 2 = 1
  BY SMT
<1>2. CASE left % 2 = 1
  <2>1. p \in 0 .. (n - 1)
    BY <1>2, SMT
  <2> DEFINE t == [mem EXCEPT ![p] = src[o], ![p + 1] = mem[p + 1]]
             f == Filled(mem, p, 1, src, o)
  <2>2. ASSUME NEW a \in 0 .. (n - 1)
        PROVE  t[a] = IF a = p THEN src[o] ELSE mem[a]
    BY <2>1, SMT DEF MemoryOf
  <2>3. ASSUME NEW a \in 0 .. (n - 1)
        PROVE  f[a] = IF a = p THEN src[o] ELSE mem[a]
    <3>1. f[a] = IF p <= a /\ a < p + 1 THEN src[o + (a - p)] ELSE mem[a]
      BY FilledAt DEF MemoryOf
    <3>2. (p <= a /\ a < p + 1) <=> a = p
      BY SMT
    <3>3. a = p => o + (a - p) = o
      BY SMT
    <3> QED  BY <3>1, <3>2, <3>3
  <2>4. t = [a \in 0 .. (n - 1) |-> t[a]] /\ f = [a \in 0 .. (n - 1) |-> f[a]]
    BY DEF Filled, MemoryOf
  <2> HIDE DEF t, f
  <2>5. t = f
    BY <2>2, <2>3, <2>4, Zenon
  <2> QED  BY <1>2, <2>5 DEF TailPut, t, f
<1>3. CASE left % 2 = 0
  <2>1. \A a \in 0 .. (n - 1) : ~(p <= a /\ a < p + 0)
    BY SMT
  <2>2. Filled(mem, p, 0, src, o) = [a \in 0 .. (n - 1) |-> mem[a]]
    BY <2>1 DEF Filled, MemoryOf
  <2> QED  BY <1>3, <2>2 DEF TailPut, MemoryOf
<1> QED  BY <1>1, <1>2, <1>3

(* Halfwords and then the odd byte fill the bytes that were left.            *)
LEMMA HalvesFill ==
    ASSUME NEW n \in Nat, NEW mem, MemoryOf(n, mem),
           NEW src, NEW p \in Nat, NEW o \in Nat, NEW left \in Nat, p + left <= n
    PROVE  Halves(mem, p, o, left, src) = Filled(mem, p, left, src, o)
<1> DEFINE bulk == 2 * (left \div 2)
           m1 == Filled(mem, p, bulk, src, o)
<1>1. bulk \in Nat /\ bulk + (left % 2) = left
  BY SMT
<1>2. MemoryOf(n, m1)
  BY DEF Filled, MemoryOf
<1>3. Halves(mem, p, o, left, src) = TailPut(m1, p + bulk, o + bulk, left, src)
  BY DEF Halves
<1> HIDE DEF bulk
<1>4. p + bulk \in Nat /\ o + bulk \in Nat /\ (p + bulk) + (left % 2) <= n
  BY <1>1, SMT
<1>5. TailPut(m1, p + bulk, o + bulk, left, src)
        = Filled(m1, p + bulk, left % 2, src, o + bulk)
  <2> HIDE DEF m1
  <2> QED  BY <1>2, <1>4, TailPutFills
<1>6. left % 2 \in Nat
  BY SMT
<1>7. Filled(m1, p + bulk, left % 2, src, o + bulk)
        = Filled(mem, p, bulk + (left % 2), src, o)
  <2> QED  BY <1>1, <1>6, FilledTwice
<1> QED  BY <1>1, <1>3, <1>5, <1>7

(* Whole rounds of four and the remainder before them copy every word.       *)
LEMMA RoundsCopyAll ==
    ASSUME NEW k \in Nat
    PROVE  Rounds(k) = k
BY SMT DEF Rounds

(* Quotient and remainder by four.                                           *)
LEMMA DivMod4 ==
    ASSUME NEW s \in Nat
    PROVE  /\ s \div 4 \in Nat
           /\ s % 4 \in Nat
           /\ s % 4 <= 3
           /\ 4 * (s \div 4) + (s % 4) = s
           /\ s - (s % 4) \in Nat
<1>1. s \div 4 \in Nat
  BY SMT
<1>2. s % 4 \in Nat /\ s % 4 <= 3
  BY SMT
<1>3. 4 * (s \div 4) + (s % 4) = s
  BY SMT
<1>4. s - (s % 4) \in Nat
  BY <1>1, <1>2, <1>3, SMT
<1> QED  BY <1>1, <1>2, <1>3, <1>4

(* A fill of nothing, and the empty copy, leave the memory as it is.         *)
LEMMA FilledNone ==
    ASSUME NEW n \in Nat, NEW mem, MemoryOf(n, mem),
           NEW src, NEW p \in Nat, NEW o \in Nat
    PROVE  Filled(mem, p, 0, src, o) = mem
<1>1. \A a \in 0 .. (n - 1) : ~(p <= a /\ a < p + 0)
  BY SMT
<1> QED  BY <1>1 DEF Filled, MemoryOf

(* Filling the first byte and then the others fills the range.               *)
LEMMA FilledFirst ==
    ASSUME NEW n \in Nat, NEW mem, MemoryOf(n, mem),
           NEW src, NEW p \in Nat, NEW size \in Nat, size # 0
    PROVE  Filled(Filled(mem, p, 1, src, 0), p + 1, size - 1, src, 1)
             = Filled(mem, p, size, src, 0)
<1>1. 1 = 0 + 1 /\ size = 1 + (size - 1) /\ size - 1 \in Nat /\ 0 \in Nat /\ 1 \in Nat
  BY SMT
<1> QED  BY <1>1, FilledTwice

(* tonccpy copies exactly the bytes asked for, for every memory, size and    *)
(* pair of alignments: the words, the halfwords, the odd byte behind them    *)
(* and the one before them add up to the range, and the bytes put back are   *)
(* the ones that were there.                                                 *)
THEOREM CopyIsExact ==
    ASSUME NEW n \in Nat, NEW mem, MemoryOf(n, mem),
           NEW src, NEW dst \in Nat, NEW srcAddr \in Nat, NEW size \in Nat,
           dst + size <= n
    PROVE  CopiesExactly(mem, dst, src, srcAddr, size)
<1> DEFINE want == Filled(mem, dst, size, src, 0)
<1>d. DOMAIN mem = 0 .. (n - 1)
  BY DEF MemoryOf
<1> SUFFICES tonccpy(mem, dst, src, srcAddr, size) = want
  BY DEF CopiesExactly
<1>1. CASE size = 0
  <2>1. Filled(mem, dst, 0, src, 0) = mem
    BY FilledNone
  <2>2. tonccpy(mem, dst, src, srcAddr, size) = mem
    BY <1>1 DEF tonccpy
  <2> QED  BY <1>1, <2>1, <2>2
<1>2. CASE size # 0 /\ ByWords(dst, srcAddr, size)
  <2> DEFINE k == size \div 4
             bulk == 4 * k
             m1 == Filled(mem, dst, bulk, src, 0)
  <2>1. k \in Nat /\ bulk \in Nat /\ bulk + (size % 4) = size /\ (size % 4) \in Nat
    BY DivMod4
  <2>2. tonccpy(mem, dst, src, srcAddr, size) = WordsThenTail(mem, dst, src, size)
    BY <1>2 DEF tonccpy
  <2>3. Rounds(k) = k
    BY <2>1, RoundsCopyAll
  <2>4. WordsThenTail(mem, dst, src, size) = Halves(m1, dst + bulk, bulk, size % 4, src)
    BY <2>3 DEF WordsThenTail
  <2>5. MemoryOf(n, m1)
    BY DEF Filled, MemoryOf
  <2> HIDE DEF k, bulk
  <2>6. dst + bulk \in Nat /\ (dst + bulk) + (size % 4) <= n
    BY <2>1, SMT
  <2>7. Halves(m1, dst + bulk, bulk, size % 4, src)
          = Filled(m1, dst + bulk, size % 4, src, bulk)
    <3> HIDE DEF m1
    <3> QED  BY <2>1, <2>5, <2>6, HalvesFill
  <2>8. Filled(m1, dst + bulk, size % 4, src, 0 + bulk)
          = Filled(mem, dst, bulk + (size % 4), src, 0)
    BY <2>1, FilledTwice
  <2>9. 0 + bulk = bulk
    BY <2>1, SMT
  <2> QED  BY <2>1, <2>2, <2>4, <2>7, <2>8, <2>9
<1>3. CASE size # 0 /\ ~ByWords(dst, srcAddr, size) /\ (dst % 2) = 1
  <2> DEFINE m1 == HeadPut(mem, dst, src)
             f == Filled(mem, dst, 1, src, 0)
  <2>1. tonccpy(mem, dst, src, srcAddr, size) = Halves(m1, dst + 1, 1, size - 1, src)
    BY <1>3 DEF tonccpy
  <2>2. dst \in 0 .. (n - 1) /\ dst - 1 \in 0 .. (n - 1) /\ dst - 1 # dst
    BY <1>3, SMT
  <2>3. m1 = f
    <3>1. ASSUME NEW a \in 0 .. (n - 1)
          PROVE  m1[a] = IF a = dst THEN src[0] ELSE mem[a]
      BY <2>2, SMT DEF HeadPut, MemoryOf
    <3>2. ASSUME NEW a \in 0 .. (n - 1)
          PROVE  f[a] = IF a = dst THEN src[0] ELSE mem[a]
      <4>1. f[a] = IF dst <= a /\ a < dst + 1 THEN src[0 + (a - dst)] ELSE mem[a]
        BY FilledAt, <1>d
      <4>2. (dst <= a /\ a < dst + 1) <=> a = dst
        BY SMT
      <4>3. a = dst => 0 + (a - dst) = 0
        BY SMT
      <4> QED  BY <4>1, <4>2, <4>3
    <3>3. m1 = [a \in 0 .. (n - 1) |-> m1[a]] /\ f = [a \in 0 .. (n - 1) |-> f[a]]
      BY <1>d DEF HeadPut, Filled
    <3> HIDE DEF m1, f
    <3> QED  BY <3>1, <3>2, <3>3, Zenon
  <2>4. MemoryOf(n, f)
    BY DEF Filled, MemoryOf
  <2>5. dst + 1 \in Nat /\ size - 1 \in Nat /\ (dst + 1) + (size - 1) <= n
    BY <1>3, SMT
  <2>6. Halves(f, dst + 1, 1, size - 1, src) = Filled(f, dst + 1, size - 1, src, 1)
    <3> HIDE DEF f
    <3> QED  BY <2>4, <2>5, HalvesFill
  <2>7. Filled(f, dst + 1, size - 1, src, 1) = Filled(mem, dst, size, src, 0)
    BY <1>3, FilledFirst
  <2> QED  BY <2>1, <2>3, <2>6, <2>7
<1>4. CASE size # 0 /\ ~ByWords(dst, srcAddr, size) /\ ~((dst % 2) = 1)
  <2>1. tonccpy(mem, dst, src, srcAddr, size) = Halves(mem, dst, 0, size, src)
    BY <1>4 DEF tonccpy
  <2>2. Halves(mem, dst, 0, size, src) = Filled(mem, dst, size, src, 0)
    BY HalvesFill
  <2> QED  BY <2>1, <2>2
<1> QED  BY <1>1, <1>2, <1>3, <1>4

(* The words of a fill and the part of a word behind them fill the range     *)
(* they were asked for, each byte at its own place in the word.              *)
LEMMA WordsThenMaskFill ==
    ASSUME NEW n \in Nat, NEW mem, MemoryOf(n, mem),
           NEW fill, NEW w \in Nat, NEW size \in Nat
    PROVE  WordsThenMask(mem, w, size, fill) = Set(mem, w, fill, size)
<1>d. Set(mem, w, fill, size)
        = [a \in 0 .. (n - 1) |-> IF w <= a /\ a < w + size THEN fill[a % 4] ELSE mem[a]]
  BY DEF Set, MemoryOf
<1> DEFINE k == size \div 4
           rest == size % 4
           m1 == WordsOf(mem, w, k, fill)
           m2 == MaskedWord(m1, w + 4 * k, fill, rest .. 3)
<1>1. k \in Nat /\ rest \in 0 .. 3 /\ 4 * k + rest = size
  BY DivMod4
<1>2. Rounds(k) = k
  BY <1>1, RoundsCopyAll
<1>3. WordsThenMask(mem, w, size, fill) = IF rest = 0 THEN m1 ELSE m2
  BY <1>2 DEF WordsThenMask
<1>4. ASSUME NEW a \in 0 .. (n - 1)
      PROVE  m1[a] = IF w <= a /\ a < w + 4 * k THEN fill[a % 4] ELSE mem[a]
  BY DEF WordsOf, MemoryOf
<1>5. m1 = [a \in 0 .. (n - 1) |-> m1[a]]
  BY DEF WordsOf, MemoryOf
<1>6. ASSUME NEW a \in 0 .. (n - 1)
      PROVE  m2[a] = IF w + 4 * k <= a /\ a < (w + 4 * k) + 4 /\ (a - (w + 4 * k)) \notin (rest .. 3)
                     THEN fill[a % 4] ELSE m1[a]
  BY <1>5 DEF MaskedWord
<1>7. m2 = [a \in 0 .. (n - 1) |-> m2[a]]
  BY <1>5 DEF MaskedWord
<1> HIDE DEF k, rest, m1, m2
<1>8. CASE rest = 0
  <2>1. w + 4 * k = w + size
    BY <1>1, <1>8, SMT
  <2> QED  BY <1>d, <1>3, <1>4, <1>5, <1>8, <2>1
<1>9. CASE rest # 0
  <2>1. ASSUME NEW a \in 0 .. (n - 1)
        PROVE  m2[a] = IF w <= a /\ a < w + size THEN fill[a % 4] ELSE mem[a]
    <3>1. CASE w + 4 * k <= a
      <4>1. (a < (w + 4 * k) + 4 /\ (a - (w + 4 * k)) \notin (rest .. 3)) <=> a < w + size
        BY <1>1, <3>1, SMT
      <4>2. w <= a /\ ~(a < w + 4 * k)
        BY <1>1, <3>1, SMT
      <4> QED  BY <1>4, <1>6, <3>1, <4>1, <4>2
    <3>2. CASE ~(w + 4 * k <= a)
      <4>1. a < w + 4 * k /\ a < w + size
        BY <1>1, <3>2, SMT
      <4> QED  BY <1>4, <1>6, <3>2, <4>1
    <3> QED  BY <3>1, <3>2
  <2> QED  BY <1>d, <1>3, <1>7, <1>9, <2>1
<1> QED  BY <1>8, <1>9

(* toncset fills exactly the range asked for, whatever its alignment.        *)
THEOREM FillIsExact ==
    ASSUME NEW n \in Nat, NEW mem, MemoryOf(n, mem),
           NEW fill, NEW dst \in Nat, NEW size \in Nat
    PROVE  FillsExactly(mem, dst, fill, size)
<1> DEFINE left == dst % 4
           w == dst - left
           want == [a \in 0 .. (n - 1) |-> IF dst <= a /\ a < dst + size
                                           THEN fill[a % 4] ELSE mem[a]]
<1>d. DOMAIN mem = 0 .. (n - 1)
  BY DEF MemoryOf
<1> SUFFICES toncset(mem, dst, fill, size) = want
  BY <1>d DEF FillsExactly, Set
<1>0. left \in 0 .. 3 /\ w \in Nat /\ dst = w + left
  BY DivMod4
<1>1. CASE size = 0
  <2>1. \A a \in 0 .. (n - 1) : ~(dst <= a /\ a < dst + size)
    BY <1>1, SMT
  <2>2. toncset(mem, dst, fill, size) = mem
    BY <1>1 DEF toncset
  <2> QED  BY <2>1, <2>2 DEF MemoryOf
<1>2. CASE size # 0 /\ left # 0 /\ left + size < 4
  <2> DEFINE kept == 0 .. 3 \ left .. (left + size - 1)
             m1 == MaskedWord(mem, w, fill, kept)
  <2>1. toncset(mem, dst, fill, size) = m1
    BY <1>2 DEF toncset
  <2>2. m1 = [a \in 0 .. (n - 1) |-> IF w <= a /\ a < w + 4 /\ (a - w) \notin kept
                                     THEN fill[a % 4] ELSE mem[a]]
    BY <1>d DEF MaskedWord
  <2> HIDE DEF w, left
  <2>3. ASSUME NEW a \in 0 .. (n - 1)
        PROVE  (w <= a /\ a < w + 4 /\ (a - w) \notin kept) <=> (dst <= a /\ a < dst + size)
    BY <1>0, <1>2, SMT
  <2> QED  BY <2>1, <2>2, <2>3
<1>3. CASE size # 0 /\ left # 0 /\ left + size >= 4
  <2> DEFINE m1 == MaskedWord(mem, w, fill, 0 .. left - 1)
             more == size - (4 - left)
  <2>1. toncset(mem, dst, fill, size) = WordsThenMask(m1, w + 4, more, fill)
    <3>1. ~(left + size < 4)
      BY <1>0, <1>3, SMT
    <3> QED  BY <1>3, <3>1 DEF toncset
  <2>2. ASSUME NEW a \in 0 .. (n - 1)
        PROVE  m1[a] = IF w <= a /\ a < w + 4 /\ (a - w) \notin (0 .. left - 1)
                       THEN fill[a % 4] ELSE mem[a]
    BY <1>d DEF MaskedWord
  <2>3. MemoryOf(n, m1)
    BY <1>d DEF MaskedWord, MemoryOf
  <2> HIDE DEF m1, w, left, more
  <2>4. w + 4 \in Nat /\ more \in Nat /\ (w + 4) + more = dst + size
    BY <1>0, <1>3, SMT DEF more
  <2>5. WordsThenMask(m1, w + 4, more, fill)
          = [a \in 0 .. (n - 1) |-> IF w + 4 <= a /\ a < (w + 4) + more
                                    THEN fill[a % 4] ELSE m1[a]]
    <3>1. WordsThenMask(m1, w + 4, more, fill) = Set(m1, w + 4, fill, more)
      BY <2>3, <2>4, WordsThenMaskFill
    <3>2. DOMAIN m1 = 0 .. (n - 1)
      BY <2>3 DEF MemoryOf
    <3> QED  BY <3>1, <3>2 DEF Set
  <2>6. ASSUME NEW a \in 0 .. (n - 1)
        PROVE  (IF w + 4 <= a /\ a < (w + 4) + more THEN fill[a % 4] ELSE m1[a])
                 = IF dst <= a /\ a < dst + size THEN fill[a % 4] ELSE mem[a]
    <3>1. CASE w + 4 <= a
      <4>1. dst <= a /\ ~(a < w + 4) /\ ((a < (w + 4) + more) <=> (a < dst + size))
        BY <1>0, <2>4, <3>1, SMT
      <4> QED  BY <2>2, <3>1, <4>1
    <3>2. CASE ~(w + 4 <= a)
      <4>1. (w <= a /\ a < w + 4 /\ (a - w) \notin (0 .. left - 1))
              <=> (dst <= a /\ a < dst + size)
        BY <1>0, <1>3, <3>2, SMT
      <4> QED  BY <2>2, <3>2, <4>1
    <3> QED  BY <3>1, <3>2
  <2> QED  BY <2>1, <2>5, <2>6
<1>4. CASE size # 0 /\ ~(left # 0)
  <2>1. toncset(mem, dst, fill, size) = WordsThenMask(mem, w, size, fill)
    <3>1. ~(size # 0 /\ left # 0 /\ left + size < 4)
            /\ ~(size # 0 /\ left # 0 /\ left + size >= 4)
      BY <1>4
    <3> QED  BY <1>4, <3>1 DEF toncset
  <2>2. w = dst
    BY <1>0, <1>4, SMT
  <2> HIDE DEF w, left
  <2>3. WordsThenMask(mem, w, size, fill) = Set(mem, w, fill, size)
    BY <1>0, WordsThenMaskFill
  <2>4. Set(mem, dst, fill, size) = want
    BY <1>d DEF Set
  <2> QED  BY <2>1, <2>2, <2>3, <2>4
<1> QED  BY <1>1, <1>2, <1>3, <1>4
=============================================================================
