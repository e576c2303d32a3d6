---------------------------- MODULE RomInfoProofs ----------------------------
(***************************************************************************)
(* The settings and the cheats of games (RomInfo), for every set of files, *)
(* games and records of cheats and every list on the card: what was        *)
(* confirmed is what the menu has from then on, in memory and on the card, *)
(* what its rows say and what is on the screen.                            *)
(*                                                                         *)
(* GamesInv: the list in memory is the list on the card, and a row or the  *)
(* copy of the information window is an entry of its own game.  FreshInv:  *)
(* of the rows of one game that were read one is as the list says, or the  *)
(* window that is open will make it so.  CheatsInv: the bytes of a record  *)
(* say what was confirmed, and the codes marked in the window can be in    *)
(* use together.  ShownInv: each window of the menu, the ones behind the   *)
(* one that has the keys too, shows the row that has the focus or is       *)
(* selected (WindowOK and TabsOK for tabs, ListOK for lists).  SettledInv: *)
(* the file of settings says what was confirmed, gs() has it, and whatever *)
(* a window may save is read as it will be written.                        *)
(***************************************************************************)
EXTENDS RomInfo, FiniteSetTheorems, WellFoundedInduction, TLAPS

-----------------------------------------------------------------------------
(* Numbers have a least one. *)

\* The order of the numbers, as pairs
Under == {p \in Nat \X Nat : p[1] < p[2]}

\* No sequence of numbers falls for ever: what is below them are finite sets.
LEMMA UnderWellFounded == IsWellFoundedOn(Under, Nat)
<1> SUFFICES ASSUME NEW f \in [Nat -> Nat], \A n \in Nat : <<f[n + 1], f[n]>> \in Under
             PROVE  FALSE
  BY DEF IsWellFoundedOn
<1> DEFINE g == [n \in Nat |-> 1 .. f[n]]
<1>1. ASSUME NEW n \in Nat PROVE g[n] \in FiniteSubsetsOf(Nat)
  <2>1. f[n] \in Nat OBVIOUS
  <2>2. IsFiniteSet(1 .. f[n]) BY <2>1, FS_Interval
  <2>3. 1 .. f[n] \in SUBSET Nat BY <2>1
  <2> QED BY <2>2, <2>3 DEF FiniteSubsetsOf
<1>2. g \in [Nat -> FiniteSubsetsOf(Nat)]
  BY <1>1
<1>3. ASSUME NEW n \in Nat PROVE <<g[n + 1], g[n]>> \in StrictSubsetOrdering(Nat)
  <2> DEFINE a == 1 .. f[n + 1]
             b == 1 .. f[n]
  <2>1. n + 1 \in Nat /\ f[n] \in Nat /\ f[n + 1] \in Nat
    OBVIOUS
  <2>2. f[n + 1] < f[n]
    BY <2>1 DEF Under
  <2>3. f[n] \in b /\ f[n] \notin a /\ a \subseteq b /\ a \subseteq Nat /\ b \subseteq Nat
    BY <2>1, <2>2
  <2>4. g[n + 1] = a /\ g[n] = b
    BY <2>1
  <2> HIDE DEF a, b, g
  <2> QED BY <2>3, <2>4 DEF StrictSubsetOrdering
<1> HIDE DEF g
<1> QED
  BY <1>2, <1>3, FS_StrictSubsetOrderingWellFounded DEF IsWellFoundedOn

\* A set of numbers that is not empty has a least one.
LEMMA Least ==
    ASSUME NEW S, S \subseteq Nat, S # {}
    PROVE  \E i \in S : \A j \in S : i <= j
<1>1. PICK i \in S : \A j \in S : ~(<<j, i>> \in Under)
  BY UnderWellFounded, WFMin
<1>2. ASSUME NEW j \in S PROVE i <= j
  <2>1. i \in Nat /\ j \in Nat
    OBVIOUS
  <2>2. ~(<<j, i>>[1] < <<j, i>>[2])
    BY <1>1, <2>1 DEF Under
  <2> QED BY <2>1, <2>2
<1> QED BY <1>2

-----------------------------------------------------------------------------
(* The list of settings *)

\* The first entry of a game is found where there is one.
EntryOf(list, g) == CHOOSE i \in 1 .. Len(list) : IsFirst(i, EntriesOf(list, g))

\* The entry a look-up takes is the first of its game.
LEMMA EntryFound ==
    ASSUME NEW list \in Seq(Infos), NEW g, EntriesOf(list, g) # {}
    PROVE  /\ EntryOf(list, g) \in 1 .. Len(list)
           /\ IsFirst(EntryOf(list, g), EntriesOf(list, g))
           /\ list[EntryOf(list, g)] \in Infos /\ list[EntryOf(list, g)].game = g
           /\ \A i \in 1 .. Len(list) :
                 IsFirst(i, EntriesOf(list, g)) => i = EntryOf(list, g)
<1>1. EntriesOf(list, g) \subseteq 1 .. Len(list) /\ 1 .. Len(list) \subseteq Nat
  BY DEF EntriesOf
<1>2. PICK i \in EntriesOf(list, g) : \A j \in EntriesOf(list, g) : i <= j
  BY <1>1, Least
<1>3. IsFirst(i, EntriesOf(list, g)) /\ i \in 1 .. Len(list)
  BY <1>1, <1>2 DEF IsFirst
<1>4. EntryOf(list, g) \in 1 .. Len(list) /\ IsFirst(EntryOf(list, g), EntriesOf(list, g))
  BY <1>3 DEF EntryOf
<1>5. list[EntryOf(list, g)] \in Infos /\ list[EntryOf(list, g)].game = g
  BY <1>4 DEF IsFirst, EntriesOf
<1>6. \A a, b \in 1 .. Len(list) : IsFirst(a, EntriesOf(list, g))
          /\ IsFirst(b, EntriesOf(list, g)) => a = b
  <2> SUFFICES ASSUME NEW a \in 1 .. Len(list), NEW b \in 1 .. Len(list),
                      IsFirst(a, EntriesOf(list, g)), IsFirst(b, EntriesOf(list, g))
               PROVE  a = b
    OBVIOUS
  <2>1. a <= b /\ b <= a
    BY DEF IsFirst
  <2> QED BY <2>1
<1> QED BY <1>4, <1>5, <1>6

\* What is looked up for a game is an entry of that game.
LEMMA LookedUpHas ==
    ASSUME NEW list \in Seq(Infos), NEW g \in Games
    PROVE  /\ UpdateSaveInfoByInfo(list, g) \in Infos
           /\ UpdateSaveInfoByInfo(list, g).game = g
<1>1. CASE EntriesOf(list, g) # {}
  <2>1. UpdateSaveInfoByInfo(list, g) = list[EntryOf(list, g)]
    BY <1>1 DEF UpdateSaveInfoByInfo, EntryOf
  <2> QED BY <1>1, <2>1, EntryFound
<1>2. CASE EntriesOf(list, g) = {}
  <2>1. UpdateSaveInfoByInfo(list, g) = [Defaults(g) EXCEPT !.type = RomList[g]]
    BY <1>2 DEF UpdateSaveInfoByInfo
  <2>2. RomList[g] \in Types
    BY RomInfoAssumption
  <2> QED BY <2>1, <2>2 DEF Defaults, Infos
<1> QED BY <1>1, <1>2

\* What is looked up after an update: the new entry for its game, and for
\* every other game what was looked up before.
LEMMA UpdatedList ==
    ASSUME NEW list \in Seq(Infos), NEW info \in Infos
    PROVE  /\ UpdateCustomSaveList(list, info) \in Seq(Infos)
           /\ \A g \in Games :
                 UpdateSaveInfoByInfo(UpdateCustomSaveList(list, info), g)
                     = IF g = info.game THEN info ELSE UpdateSaveInfoByInfo(list, g)
<1> DEFINE new == UpdateCustomSaveList(list, info)
<1>1. CASE EntriesOf(list, info.game) = {}
  <2>1. new = Append(list, info)
    BY <1>1 DEF UpdateCustomSaveList
  <2>2. /\ new \in Seq(Infos) /\ Len(new) = Len(list) + 1 /\ new[Len(list) + 1] = info
        /\ \A i \in 1 .. Len(list) : new[i] = list[i]
        /\ Len(list) \in Nat
    BY <2>1
  <2> HIDE DEF new
  <2>3. ASSUME NEW g \in Games
        PROVE  UpdateSaveInfoByInfo(new, g)
                   = IF g = info.game THEN info ELSE UpdateSaveInfoByInfo(list, g)
    <3>1. CASE g = info.game
      <4>1. EntriesOf(new, g) = {Len(list) + 1}
        BY <1>1, <2>2, <3>1 DEF EntriesOf
      <4>2. EntryOf(new, g) = Len(list) + 1
        BY <2>2, <4>1, EntryFound DEF IsFirst
      <4>3. UpdateSaveInfoByInfo(new, g) = new[EntryOf(new, g)]
        BY <4>1 DEF UpdateSaveInfoByInfo, EntryOf
      <4> QED BY <2>2, <3>1, <4>2, <4>3
    <3>2. CASE g # info.game
      <4>1. EntriesOf(new, g) = EntriesOf(list, g)
        BY <2>2, <3>2 DEF EntriesOf
      <4>2. CASE EntriesOf(list, g) = {}
        <5>1. UpdateSaveInfoByInfo(new, g) = [Defaults(g) EXCEPT !.type = RomList[g]]
          BY <4>1, <4>2 DEF UpdateSaveInfoByInfo
        <5>2. UpdateSaveInfoByInfo(list, g) = [Defaults(g) EXCEPT !.type = RomList[g]]
          BY <4>2 DEF UpdateSaveInfoByInfo
        <5> QED BY <3>2, <5>1, <5>2
      <4>3. CASE EntriesOf(list, g) # {}
        <5>1. EntryOf(list, g) \in 1 .. Len(new)
                /\ IsFirst(EntryOf(list, g), EntriesOf(new, g))
          BY <2>2, <4>1, <4>3, EntryFound
        <5>2. EntryOf(new, g) = EntryOf(list, g)
          BY <2>2, <4>1, <4>3, <5>1, EntryFound
        <5>3. new[EntryOf(list, g)] = list[EntryOf(list, g)]
          BY <2>2, <4>3, EntryFound
        <5>4. UpdateSaveInfoByInfo(new, g) = new[EntryOf(new, g)]
          BY <4>1, <4>3 DEF UpdateSaveInfoByInfo, EntryOf
        <5>5. UpdateSaveInfoByInfo(list, g) = list[EntryOf(list, g)]
          BY <4>3 DEF UpdateSaveInfoByInfo, EntryOf
        <5> QED BY <3>2, <5>2, <5>3, <5>4, <5>5
      <4> QED BY <4>2, <4>3
    <3> QED BY <3>1, <3>2
  <2> QED BY <2>2, <2>3 DEF new
<1>2. CASE EntriesOf(list, info.game) # {}
  <2> DEFINE at == EntryOf(list, info.game)
  <2>1. at \in 1 .. Len(list)
          /\ \A i \in 1 .. Len(list) : IsFirst(i, EntriesOf(list, info.game)) <=> i = at
    BY <1>2, EntryFound
  <2>2. new = [i \in 1 .. Len(list) |-> IF i = at THEN info ELSE list[i]]
    BY <1>2, <2>1 DEF UpdateCustomSaveList
  <2>3. list[at].game = info.game
    BY <1>2, EntryFound
  <2> HIDE DEF at, new
  <2>4. /\ new \in Seq(Infos) /\ Len(new) = Len(list) /\ new[at] = info
        /\ \A i \in 1 .. Len(list) : i # at => new[i] = list[i]
    BY <2>1, <2>2
  <2>5. \A i \in 1 .. Len(list) : new[i].game = list[i].game
    BY <2>3, <2>4
  <2>6. ASSUME NEW g \in Games
        PROVE  UpdateSaveInfoByInfo(new, g)
                   = IF g = info.game THEN info ELSE UpdateSaveInfoByInfo(list, g)
    <3>1. EntriesOf(new, g) = EntriesOf(list, g)
      BY <2>4, <2>5 DEF EntriesOf
    <3>2. CASE EntriesOf(list, g) = {}
      BY <1>2, <3>1, <3>2 DEF UpdateSaveInfoByInfo
    <3>3. CASE EntriesOf(list, g) # {}
      <4>1. EntryOf(new, g) = EntryOf(list, g)
        BY <2>4, <3>1 DEF EntryOf
      <4>2. UpdateSaveInfoByInfo(new, g) = new[EntryOf(list, g)]
        BY <3>1, <3>3, <4>1 DEF UpdateSaveInfoByInfo, EntryOf
      <4>3. UpdateSaveInfoByInfo(list, g) = list[EntryOf(list, g)]
        BY <3>3 DEF UpdateSaveInfoByInfo, EntryOf
      <4>4. EntryOf(list, g) \in 1 .. Len(list) /\ list[EntryOf(list, g)].game = g
        BY <3>3, EntryFound
      <4>5. CASE g = info.game
        <5>1. EntryOf(list, g) = at
          BY <4>5 DEF at
        <5> QED BY <2>4, <4>2, <4>5, <5>1
      <4>6. CASE g # info.game
        <5>1. EntryOf(list, g) # at
          BY <2>3, <4>4, <4>6
        <5> QED BY <2>4, <4>2, <4>3, <4>4, <4>6, <5>1
      <4> QED BY <4>5, <4>6
    <3> QED BY <3>2, <3>3
  <2> QED BY <2>4, <2>6 DEF new
<1> QED BY <1>1, <1>2

\* What is loaded from any file is a list of entries.
LEMMA LoadedList ==
    ASSUME NEW file \in SavedLists, NEW list \in Seq(Infos)
    PROVE  LoadSaveList(file, list) \in Seq(Infos)
<1>1. CASE file.kind # "list"
  BY <1>1 DEF LoadSaveList
<1>2. CASE file.kind = "list"
  <2>1. file \in [kind : {"list"}, old : BOOLEAN, items : Seq(Infos)]
    BY <1>2 DEF SavedLists, NoList, TornList
  <2>2. file.items \in Seq(Infos)
    BY <2>1
  <2>3. ASSUME NEW i \in 1 .. Len(file.items) PROVE Shortened(file.items[i]) \in Infos
    <3> DEFINE info == file.items[i]
    <3>1. info \in Infos
      BY <2>2
    <3>2. info.own \cap OldFlags \in SUBSET Flags
      BY <3>1 DEF Infos
    <3> HIDE DEF info
    <3> DEFINE flags == info.own \cap OldFlags
    <3>3. Shortened(info) = [info EXCEPT !.own = flags, !.global = {}, !.icon = 0,
                                        !.booter = 0]
      BY DEF Shortened
    <3> HIDE DEF flags
    <3>4. Shortened(info) \in Infos
      <4>1. flags \in SUBSET Flags
        BY <3>2 DEF flags
      <4> DEFINE a == [info EXCEPT !.own = flags]
                 b == [a EXCEPT !.global = {}]
                 c == [b EXCEPT !.icon = 0]
      <4>2. a \in Infos
        BY <3>1, <4>1 DEF Infos
      <4>3. b \in Infos
        <5> HIDE DEF a
        <5> QED BY <4>2 DEF Infos
      <4>4. c \in Infos
        <5> HIDE DEF b
        <5> QED BY <4>3 DEF Infos
      <4>5. [c EXCEPT !.booter = 0] \in Infos
        <5> HIDE DEF c
        <5> QED BY <4>4 DEF Infos
      <4> QED BY <3>3, <4>5
    <3> QED BY <3>4 DEF info
  <2>4. [i \in 1 .. Len(file.items) |-> Shortened(file.items[i])] \in Seq(Infos)
    BY <2>2, <2>3
  <2> QED BY <1>2, <2>2, <2>4 DEF LoadSaveList
<1> QED BY <1>1, <1>2

\* A list that was written is the list that is read.
LEMMA WrittenList ==
    ASSUME NEW list \in Seq(Infos), NEW x
    PROVE  ListFile(list) \in SavedLists /\ LoadSaveList(ListFile(list), x) = list
BY DEF ListFile, SavedLists, LoadSaveList

-----------------------------------------------------------------------------
(* The window of a game's settings *)

\* The rows every game has
Always == {"type", "cheat", "slot", "icon"}

\* The rows of any game are settings of games, and the four are among them.
LEMMA GameRows ==
    ASSUME NEW f, NEW info
    PROVE  Rows(GameTabs(f, info)) \subseteq GameKeys /\ Always \subseteq Rows(GameTabs(f, info))
<1> DEFINE tabs == GameTabs(f, info)
           tab1 == tabs[1]
<1>1. LoaderFlags \in Seq(GameKeys)
  BY DEF LoaderFlags, GameKeys
<1>2. PICK a \in Seq(GameKeys), b \in Seq(GameKeys), c \in Seq(GameKeys) :
         tabs = << <<"type">> \o a \o b \o c, <<"cheat", "slot", "icon">> >>
  <2>1. <<"loader">> \in Seq(GameKeys) /\ <<"booter">> \in Seq(GameKeys)
          /\ <<>> \in Seq(GameKeys)
    BY DEF GameKeys
  <2> DEFINE A(p) == IF p THEN <<"loader">> ELSE <<>>
             B(p) == IF p THEN LoaderFlags ELSE <<>>
             C(p) == IF p THEN <<"booter">> ELSE <<>>
  <2>2. \A p \in BOOLEAN : A(p) \in Seq(GameKeys) /\ B(p) \in Seq(GameKeys) /\ C(p) \in Seq(GameKeys)
    BY <1>1, <2>1
  <2> DEFINE la == console.flashcart /\ (~Kind(f).dsiWare \/ RomFiles[f].onFat)
             lb == IF GetFlag(info, "loader") = 2 THEN gs["pico"] = 0
                   ELSE GetFlag(info, "loader") = 1
             lc == Kind(f).dsiWare
  <2>3. /\ (IF la THEN <<"loader">> ELSE <<>>) \in Seq(GameKeys)
        /\ (IF lb THEN LoaderFlags ELSE <<>>) \in Seq(GameKeys)
        /\ (IF lc THEN <<"booter">> ELSE <<>>) \in Seq(GameKeys)
    BY <1>1, <2>1
  <2>4. tabs = << <<"type">> \o (IF la THEN <<"loader">> ELSE <<>>)
                   \o (IF lb THEN LoaderFlags ELSE <<>>)
                   \o (IF lc THEN <<"booter">> ELSE <<>>), <<"cheat", "slot", "icon">> >>
    BY DEF GameTabs
  <2> HIDE DEF tabs, la, lb, lc
  <2> QED BY <2>3, <2>4
<1>3. <<"type">> \in Seq(GameKeys) /\ <<"cheat", "slot", "icon">> \in Seq(GameKeys)
  BY DEF GameKeys
<1> DEFINE rest == a \o b \o c
<1> HIDE DEF tabs
<1>4. DOMAIN tabs = 1 .. 2 /\ tabs[2] = <<"cheat", "slot", "icon">>
        /\ tabs[1] = <<"type">> \o a \o b \o c
  BY <1>2
<1>5. tabs[1] \in Seq(GameKeys) /\ Len(tabs[1]) >= 1 /\ tabs[1][1] = "type"
  <2> DEFINE x == <<"type">> \o a
             y == x \o b
  <2>1. x \in Seq(GameKeys) /\ Len(x) >= 1 /\ x[1] = "type"
    BY <1>3
  <2> HIDE DEF x
  <2>2. y \in Seq(GameKeys) /\ Len(y) >= 1 /\ y[1] = "type"
    BY <2>1
  <2> HIDE DEF y
  <2>3. y \o c \in Seq(GameKeys) /\ Len(y \o c) >= 1 /\ (y \o c)[1] = "type"
    BY <2>2
  <2> QED BY <1>4, <2>3 DEF x, y
<1>6. Rows(tabs) = {tabs[1][i] : i \in 1 .. Len(tabs[1])} \cup {tabs[2][i] : i \in 1 .. Len(tabs[2])}
  <2> DEFINE part(t) == {tabs[t][i] : i \in 1 .. Len(tabs[t])}
  <2>1. DOMAIN tabs = {1, 2}
    BY <1>4
  <2>2. Rows(tabs) = UNION {part(t) : t \in {1, 2}}
    BY <2>1 DEF Rows
  <2> HIDE DEF part
  <2>3. UNION {part(t) : t \in {1, 2}} = part(1) \cup part(2)
    OBVIOUS
  <2> QED BY <2>2, <2>3 DEF part
<1>7. {tabs[1][i] : i \in 1 .. Len(tabs[1])} \subseteq GameKeys
        /\ "type" \in {tabs[1][i] : i \in 1 .. Len(tabs[1])}
  <2>1. 1 \in 1 .. Len(tabs[1])
    BY <1>5
  <2> QED BY <1>5, <2>1
<1>8. {tabs[2][i] : i \in 1 .. Len(tabs[2])} = {"cheat", "slot", "icon"}
  <2>1. Len(tabs[2]) = 3 /\ tabs[2][1] = "cheat" /\ tabs[2][2] = "slot" /\ tabs[2][3] = "icon"
    BY <1>4
  <2>2. 1 .. 3 = {1, 2, 3}
    OBVIOUS
  <2> QED BY <2>1, <2>2
<1>9. {"cheat", "slot", "icon"} \subseteq GameKeys
  BY DEF GameKeys
<1> QED BY <1>6, <1>7, <1>8, <1>9 DEF tabs, Always

\* What the window shows of any entry is one of the texts of its row.
LEMMA ShownInRange ==
    ASSUME NEW info \in Infos, NEW k \in GameKeys
    PROVE  ShownOf(info, k) \in 0 .. GameTexts(k) - 1
<1>1. CASE k = "type"
  <2>1. SaveTypeToDisplaySaveType(info.type) \in 0 .. 11
    <3>1. Len(DisplayTypes) = 12
      BY DEF DisplayTypes
    <3>2. CASE \E i \in 1 .. 12 : DisplayTypes[i] = info.type
      <4> DEFINE at == CHOOSE i \in 1 .. 12 : DisplayTypes[i] = info.type
      <4>1. at \in 1 .. 12
        BY <3>2
      <4>2. SaveTypeToDisplaySaveType(info.type) = at - 1
        BY <3>1, <3>2 DEF SaveTypeToDisplaySaveType
      <4> HIDE DEF at
      <4> QED BY <4>1, <4>2
    <3>3. CASE ~\E i \in 1 .. 12 : DisplayTypes[i] = info.type
      BY <3>1, <3>3 DEF SaveTypeToDisplaySaveType
    <3> QED BY <3>2, <3>3
  <2> QED BY <1>1, <2>1 DEF ShownOf, GameTexts
<1>2. CASE k # "type"
  BY <1>2 DEF ShownOf, GameTexts, GetFlag, GetDsiWareBooter, Infos
<1> QED BY <1>1, <1>2

\* Every row of the window has one of its texts selected.
GameWindow ==
    /\ "sel" \in DOMAIN win
    /\ win.sel \in [Rows(GameTabs(rom.at, rom.copy)) -> Int]
    /\ \A k \in Rows(GameTabs(rom.at, rom.copy)) : win.sel[k] \in 0 .. GameTexts(k) - 1

\* OK keeps what the rows showed: the entry it makes is shown as it was, and
\* a row that was not there is left to the menu.
LEMMA OkKeeps ==
    ASSUME GameWindow, rom.copy \in Infos
    PROVE  /\ ApplyToCopy \in Infos /\ ApplyToCopy.game = rom.copy.game
           /\ ShownWith(ApplyToCopy) = AfterOk
<1> DEFINE rows == Rows(GameTabs(rom.at, rom.copy))
           value == [f \in Flags |-> IF f \in {"downloadplay", "softreset", "sdsave"} THEN 0
                                     ELSE IF f \in rows THEN win.sel[f] ELSE 2]
           type == DisplaySaveTypeToSaveType(win.sel["type"])
           booter == IF "booter" \in rows THEN win.sel["booter"] ELSE rom.copy.booter
           typed == [rom.copy EXCEPT !.type = type, !.booter = booter]
           own == {f \in Flags : value[f] = 1}
           global == {f \in Flags : value[f] \notin {0, 1}}
           slot == win.sel["slot"]
           icon == win.sel["icon"]
<1>1. rows \subseteq GameKeys /\ Always \subseteq rows
  BY GameRows
<1>2. ASSUME NEW k \in rows PROVE win.sel[k] \in 0 .. GameTexts(k) - 1
  BY DEF GameWindow
<1>3. DOMAIN win.sel = rows
  BY DEF GameWindow
<1>4. ApplyToCopy = SetFlags(typed, value, slot, icon)
  BY DEF ApplyToCopy
<1>5. SetFlags(typed, value, slot, icon)
         = [typed EXCEPT !.own = own, !.global = global, !.slot = slot % 4, !.icon = icon % 4]
  BY DEF SetFlags
<1>6. slot \in 0 .. 3 /\ icon \in 0 .. 2 /\ win.sel["type"] \in 0 .. 11
  BY <1>1, <1>2 DEF Always, GameTexts
<1>7. slot % 4 = slot /\ icon % 4 = icon
  BY <1>6
<1>8. booter \in 0 .. 3 /\ ("booter" \in rows => booter \in 0 .. 2)
  BY <1>2 DEF GameTexts, Infos
<1>9. type \in Types /\ SaveTypeToDisplaySaveType(type) = win.sel["type"]
  <2> DEFINE d == win.sel["type"]
  <2>1. Len(DisplayTypes) = 12
    BY DEF DisplayTypes
  <2>2. d + 1 \in 1 .. 12
    BY <1>6
  <2>3. type = DisplayTypes[d + 1]
    BY <2>1, <2>2 DEF DisplaySaveTypeToSaveType
  <2>4. type \in Types
    BY <2>1, <2>2, <2>3 DEF Types
  <2>5. \A i, j \in 1 .. 12 : DisplayTypes[i] = DisplayTypes[j] => i = j
    BY DEF DisplayTypes
  <2> HIDE DEF d, type
  <2>6. (CHOOSE i \in 1 .. 12 : DisplayTypes[i] = type) = d + 1
    BY <2>2, <2>3, <2>5
  <2>7. \E i \in 1 .. 12 : DisplayTypes[i] = type
    BY <2>2, <2>3
  <2>8. SaveTypeToDisplaySaveType(type) = (d + 1) - 1
    BY <2>1, <2>6, <2>7, Zenon DEF SaveTypeToDisplaySaveType
  <2>9. (d + 1) - 1 = d
    BY <1>6 DEF d
  <2> QED BY <2>4, <2>8, <2>9 DEF d
<1>10. own \in SUBSET Flags /\ global \in SUBSET Flags
  OBVIOUS
<1> DEFINE after == [typed EXCEPT !.own = own, !.global = global, !.slot = slot, !.icon = icon]
<1>11. ASSUME NEW k \in GameKeys, k \in Flags
       PROVE  value[k] = AfterOk[k] /\ value[k] \in 0 .. 2
                /\ (k \in global <=> value[k] = 2) /\ (k \in own <=> value[k] = 1)
  <2>1. k \notin {"downloadplay", "softreset", "sdsave"} /\ k \notin {"type", "slot", "icon", "booter"}
    BY <1>11 DEF GameKeys, LoaderFlags, Flags, OldFlags
  <2>2. value[k] = IF k \in rows THEN win.sel[k] ELSE 2
    BY <1>11, <2>1
  <2>3. value[k] = AfterOk[k]
    BY <1>3, <2>1, <2>2 DEF AfterOk
  <2>4. k \in rows => win.sel[k] \in 0 .. 2
    BY <1>2, <2>1 DEF GameTexts
  <2>5. value[k] \in 0 .. 2
    BY <2>2, <2>4
  <2> HIDE DEF value
  <2> QED BY <1>11, <2>3, <2>5
<1> HIDE DEF value, own, global, type, booter, slot, icon, rows
<1>12. typed \in Infos /\ typed.game = rom.copy.game /\ typed.type = type /\ typed.booter = booter
  BY <1>8, <1>9 DEF Infos
<1> HIDE DEF typed
<1>13. /\ after \in Infos /\ after.game = rom.copy.game /\ after.type = type
       /\ after.booter = booter /\ after.slot = slot /\ after.icon = icon
       /\ after.own = own /\ after.global = global
  <2> DEFINE a == [typed EXCEPT !.own = own]
             b == [a EXCEPT !.global = global]
             c == [b EXCEPT !.slot = slot]
  <2>1. /\ a \in Infos /\ a.own = own
        /\ a.game = rom.copy.game /\ a.type = type /\ a.booter = booter
    BY <1>10, <1>12 DEF Infos
  <2>2. /\ b \in Infos /\ b.own = own /\ b.global = global
        /\ b.game = rom.copy.game /\ b.type = type /\ b.booter = booter
    <3> HIDE DEF a
    <3> QED BY <1>10, <2>1 DEF Infos
  <2>3. /\ c \in Infos /\ c.own = own /\ c.global = global /\ c.slot = slot
        /\ c.game = rom.copy.game /\ c.type = type /\ c.booter = booter
    <3> HIDE DEF b
    <3> QED BY <1>6, <2>2 DEF Infos
  <2>4. after = [c EXCEPT !.icon = icon]
    OBVIOUS
  <2> HIDE DEF c, after
  <2>5. icon \in 0 .. 3
    BY <1>6
  <2> QED BY <2>3, <2>4, <2>5 DEF Infos
<1> HIDE DEF after
<1>14. ApplyToCopy = after
  BY <1>4, <1>5, <1>7 DEF after
<1>15. ASSUME NEW k \in GameKeys PROVE ShownOf(after, k) = AfterOk[k]
  <2>1. CASE k = "type"
    BY <1>1, <1>3, <1>9, <1>13, <2>1 DEF ShownOf, AfterOk, Always
  <2>2. CASE k = "slot"
    BY <1>1, <1>3, <1>13, <2>2 DEF ShownOf, AfterOk, Always, slot
  <2>3. CASE k = "icon"
    BY <1>1, <1>3, <1>6, <1>13, <2>3 DEF ShownOf, AfterOk, Always, icon
  <2>4. CASE k = "booter"
    <3>1. AfterOk[k] = IF "booter" \in rows THEN win.sel["booter"]
                       ELSE GetDsiWareBooter(rom.copy)
      BY <1>3, <2>4 DEF AfterOk, ShownOf
    <3>2. ShownOf(after, k) = IF booter <= 2 THEN booter ELSE 0
      BY <1>13, <2>4 DEF ShownOf, GetDsiWareBooter
    <3> QED BY <1>8, <3>1, <3>2 DEF booter, GetDsiWareBooter
  <2>5. CASE k \notin {"type", "slot", "icon", "booter"}
    <3>1. k \in Flags
      BY <2>5 DEF GameKeys, LoaderFlags, Flags, OldFlags
    <3>2. ShownOf(after, k) = GetFlag(after, k)
      BY <2>5 DEF ShownOf
    <3> QED BY <1>11, <1>13, <3>1, <3>2 DEF GetFlag
  <2> QED BY <2>1, <2>2, <2>3, <2>4, <2>5
<1>16. ShownWith(after) = AfterOk
  BY <1>15 DEF ShownWith, AfterOk
<1> QED BY <1>13, <1>14, <1>16

-----------------------------------------------------------------------------
(* The settings of games: the files, the list in memory, the copy of the   *)
(* information window and the rows.                                         *)

(* The information window is open, with nothing or another window over it. *)
Held == \/ screen \in {"info", "game"}
        \/ screen \in {"cheats", "lost"} /\ rom.cheats.from = "info"

\* The types, as far as the arguments need them
Shapes ==
    /\ DOMAIN rom = {"list", "rows", "at", "copy", "cheats"}
    /\ DOMAIN rom.cheats = {"list", "open", "sel", "from"}
    /\ DOMAIN store = {"list", "cheats"} /\ DOMAIN told = {"shown", "used"}
    /\ rom.list \in Seq(Infos) /\ store.list \in SavedLists
    /\ rom.rows \in [DOMAIN RomFiles -> Infos \cup {Unread}]
    /\ rom.at \in DOMAIN RomFiles /\ DOMAIN told.shown = Games
    /\ rom.cheats.from \in {"list", "info"}

\* The list in memory and on the card, and what was confirmed last
ListKept ==
    /\ \A g \in Games :
          told.shown[g] = ShownWith(UpdateSaveInfoByInfo(LoadSaveList(store.list, <<>>), g))
    /\ screen \in {"off", "check"} => rom = NoRom
    /\ screen \notin {"off", "check"} => rom.list = LoadSaveList(store.list, <<>>)

\* Rows and the copy are entries of the game of their file.
OfItsGame(info, f) == info \in Infos /\ info.game = GameOf(f)
RowsOfGames ==
    /\ \A f \in DOMAIN RomFiles : rom.rows[f] # Unread => OfItsGame(rom.rows[f], f)
    /\ Held => OfItsGame(rom.copy, rom.at)
    /\ screen = "game" => GameWindow /\ Kind(rom.at).dsRom

GamesInv == Shapes /\ ListKept /\ RowsOfGames

(* Of the rows that were read one of each game is as the list says, or the *)
(* copy is and will be given to a row.                                     *)
Like(a, b) == [a EXCEPT !.type = "AUTO"] = [b EXCEPT !.type = "AUTO"]
RowIsFresh(h) == rom.rows[h] # Unread /\ Like(rom.rows[h], LookedUp(rom.list, h))
CopyIsFresh == Like(rom.copy, LookedUp(rom.list, rom.at))
SomeFresh(f) == \E h \in DOMAIN RomFiles : GameOf(h) = GameOf(f) /\ RowIsFresh(h)

FreshInv ==
    /\ \A f \in DOMAIN RomFiles : Kind(f).dsRom /\ rom.rows[f] # Unread =>
          \/ SomeFresh(f)
          \/ Held /\ Kind(rom.at).dsRom /\ GameOf(rom.at) = GameOf(f) /\ CopyIsFresh
    /\ Held => rom.copy = rom.rows[rom.at] \/ CopyIsFresh

(* Where the start and the windows of the menu lead *)
LEMMA MenuSteps ==
    ASSUME Next
    PROVE  /\ screen = "off" => screen' \in {"off", "check"}
           /\ screen = "check" => screen' \in {"off", "check", "theme"}
           /\ screen \notin {"off", "check"} => screen' # "check"
           /\ screen' \notin {"info", "game", "cheats", "lost"}
<1> DEFINE Goal == /\ screen = "off" => screen' \in {"off", "check"}
                   /\ screen = "check" => screen' \in {"off", "check", "theme"}
                   /\ screen \notin {"off", "check"} => screen' # "check"
                   /\ screen' \notin {"info", "game", "cheats", "lost"}
<1>1. CASE PowerOn \/ CheckInitIni \/ LoadSettings \/ PowerOff \/ EditFile
  BY <1>1 DEF PowerOn, CheckInitIni, LoadSettings, PowerOff, EditFile, Rest
<1>2. CASE EnsureValidTheme
  BY <1>2 DEF EnsureValidTheme, AfterStart, SaveSettings
<1>3. CASE OpenSettings \/ MoveInSettings \/ TurnSetting \/ AskToSave \/ OpenLanguages \/ CloseSettings
  BY <1>3 DEF OpenSettings, MoveInSettings, TurnSetting, AskToSave, OpenLanguages, CloseSettings,
              InSettings, MayChange, Rest
<1>4. CASE AnswerSave
  BY <1>4 DEF AnswerSave, SaveSettings
<1>5. CASE OpenThemes \/ PressRow \/ SelectRow \/ FoldRow \/ CancelBox
  BY <1>5 DEF OpenThemes, PressRow, SelectRow, FoldRow, CancelBox, Turns, Choosing, MayChange, Below
<1>6. CASE ConfirmLanguage \/ ConfirmTheme \/ DeclineRestart
  BY <1>6 DEF ConfirmLanguage, ConfirmTheme, DeclineRestart, Below
<1>7. CASE Restart
  BY <1>7 DEF Restart, SaveSettings, Below
<1> QED BY <1>1, <1>2, <1>3, <1>4, <1>5, <1>6, <1>7 DEF Next

\* Of the windows of games only the power takes the user to another.
LEMMA MenuLeaves ==
    ASSUME Next, screen \in {"info", "game", "cheats", "lost"}
    PROVE  screen' = "off"
<1>1. CASE PowerOff
  BY <1>1 DEF PowerOff
<1>2. CASE PowerOn \/ CheckInitIni \/ LoadSettings \/ EditFile \/ EnsureValidTheme
  BY <1>2 DEF PowerOn, CheckInitIni, LoadSettings, EditFile, EnsureValidTheme
<1>3. CASE OpenSettings \/ MoveInSettings \/ TurnSetting \/ AskToSave \/ OpenLanguages \/ CloseSettings
  BY <1>3 DEF OpenSettings, MoveInSettings, TurnSetting, AskToSave, OpenLanguages, CloseSettings,
              InSettings, MayChange
<1>4. CASE AnswerSave \/ Restart
  BY <1>4 DEF AnswerSave, Restart
<1>5. CASE OpenThemes \/ PressRow \/ SelectRow \/ FoldRow \/ CancelBox
  BY <1>5 DEF OpenThemes, PressRow, SelectRow, FoldRow, CancelBox, Turns, Choosing, MayChange
<1>6. CASE ConfirmLanguage \/ ConfirmTheme \/ DeclineRestart
  BY <1>6 DEF ConfirmLanguage, ConfirmTheme, DeclineRestart
<1> QED BY <1>1, <1>2, <1>3, <1>4, <1>5, <1>6 DEF Next

\* The row of a file is an entry of its game.
LEMMA RowOfItsGame ==
    ASSUME GamesInv, NEW f \in DOMAIN RomFiles
    PROVE  OfItsGame(RowOf(f), f) /\ OfItsGame(LookedUp(rom.list, f), f)
<1>1. GameOf(f) \in Games /\ rom.list \in Seq(Infos)
  BY RomInfoAssumption DEF GameOf, GamesInv, Shapes
<1>2. OfItsGame(LookedUp(rom.list, f), f)
  BY <1>1, LookedUpHas DEF LookedUp, OfItsGame
<1>3. CASE rom.rows[f] = Unread
  BY <1>2, <1>3 DEF RowOf
<1>4. CASE rom.rows[f] # Unread
  BY <1>2, <1>4 DEF RowOf, GamesInv, RowsOfGames
<1> QED BY <1>3, <1>4

\* An entry is not the mark of a row that was not read.
LEMMA ReadIsNotUnread ==
    ASSUME NEW info \in Infos
    PROVE  info # Unread
<1>1. "type" \in DOMAIN info
  BY DEF Infos
<1>2. "type" \notin DOMAIN Unread
  BY DEF Unread
<1> QED BY <1>1, <1>2

\* Before the menu starts there is no list and no row was read.
LEMMA NoRomHas ==
    /\ DOMAIN NoRom = {"list", "rows", "at", "copy", "cheats"}
    /\ DOMAIN NoRom.cheats = {"list", "open", "sel", "from"}
    /\ NoRom.list = <<>> /\ NoRom.list \in Seq(Infos)
    /\ NoRom.rows = [f \in DOMAIN RomFiles |-> Unread]
    /\ NoRom.at \in DOMAIN RomFiles /\ NoRom.cheats.from = "list"
<1>1. (CHOOSE f \in DOMAIN RomFiles : TRUE) \in DOMAIN RomFiles
  BY RomInfoAssumption
<1> QED BY <1>1 DEF NoRom, NoCheats

\* The power is off: nothing is in memory.
LEMMA PoweredOff ==
    ASSUME screen' = "off", rom' = NoRom,
           DOMAIN store' = {"list", "cheats"}, DOMAIN told' = {"shown", "used"},
           store'.list \in SavedLists, DOMAIN told'.shown = Games,
           \A g \in Games : told'.shown[g]
              = ShownWith(UpdateSaveInfoByInfo(LoadSaveList(store'.list, <<>>), g))
    PROVE  GamesInv' /\ FreshInv'
<1>1. Shapes'
  BY NoRomHas DEF Shapes
<1>2. ListKept'
  BY DEF ListKept
<1>3. ~Held'
  BY DEF Held
<1>4. \A f \in DOMAIN RomFiles : rom'.rows[f] = Unread
  BY NoRomHas
<1>5. RowsOfGames'
  BY <1>3, <1>4 DEF RowsOfGames
<1>6. FreshInv'
  BY <1>3, <1>4 DEF FreshInv
<1> QED BY <1>1, <1>2, <1>5, <1>6 DEF GamesInv

\* The first start, with the user's list or none
LEMMA GamesInitial == MenuInit => GamesInv /\ FreshInv
<1> SUFFICES ASSUME MenuInit PROVE GamesInv /\ FreshInv
  OBVIOUS
<1>1. screen = "off" /\ rom = NoRom
  BY DEF MenuInit, Init
<1>2. store.list \in {UsedList, NoList} /\ DOMAIN store = {"list", "cheats"}
        /\ DOMAIN told = {"shown", "used"}
        /\ told.shown = [g \in Games |->
              ShownWith(UpdateSaveInfoByInfo(LoadSaveList(store.list, <<>>), g))]
  BY DEF MenuInit
<1>3. store.list \in SavedLists
  BY <1>2, RomInfoAssumption DEF SavedLists
<1>4. Shapes
  BY <1>1, <1>2, <1>3, NoRomHas DEF Shapes
<1>5. ListKept
  BY <1>1, <1>2 DEF ListKept
<1>6. ~Held
  BY <1>1 DEF Held
<1>7. \A f \in DOMAIN RomFiles : rom.rows[f] = Unread
  BY <1>1, NoRomHas
<1> QED BY <1>1, <1>4, <1>5, <1>6, <1>7 DEF GamesInv, RowsOfGames, FreshInv

\* Steps that leave the list, the rows and the copy alone.
LEMMA Quiet ==
    ASSUME GamesInv, FreshInv,
           screen \notin {"off", "check"}, screen' \notin {"off", "check"}, Held' <=> Held,
           DOMAIN rom' = DOMAIN rom, rom'.list = rom.list, rom'.rows = rom.rows,
           rom'.at = rom.at, rom'.copy = rom.copy,
           DOMAIN rom'.cheats = {"list", "open", "sel", "from"},
           rom'.cheats.from \in {"list", "info"},
           DOMAIN store' = DOMAIN store, store'.list = store.list,
           DOMAIN told' = DOMAIN told, told'.shown = told.shown,
           screen' = "game" => GameWindow' /\ Kind(rom.at).dsRom
    PROVE  GamesInv' /\ FreshInv'
<1>1. Shapes'
  BY DEF GamesInv, Shapes
<1>2. ListKept'
  BY DEF GamesInv, ListKept
<1>3. RowsOfGames'
  BY DEF GamesInv, RowsOfGames, OfItsGame
<1>4. FreshInv'
  BY DEF FreshInv, SomeFresh, RowIsFresh, CopyIsFresh, LookedUp, Like
<1> QED BY <1>1, <1>2, <1>3, <1>4 DEF GamesInv

\* The start and the windows of the menu: the list is read after checkInitIni,
\* and is gone with the power.
LEMMA BesideKeeps ==
    ASSUME GamesInv, FreshInv, Next, BesideMenu
    PROVE  GamesInv' /\ FreshInv'
<1>1. store' = store /\ told' = told
  BY DEF BesideMenu
<1>2. CASE screen' = "off"
  <2>1. rom' = NoRom
    BY <1>2 DEF BesideMenu
  <2> QED BY <1>1, <1>2, <2>1, PoweredOff DEF GamesInv, Shapes, ListKept
<1>3. CASE screen' = "check"
  <2>1. screen \in {"off", "check"} /\ rom' = rom /\ rom = NoRom
    BY <1>3, MenuSteps DEF BesideMenu, GamesInv, ListKept
  <2>2. Shapes'
    BY <1>1, <2>1 DEF GamesInv, Shapes
  <2>3. ListKept'
    BY <1>1, <1>3, <2>1 DEF GamesInv, ListKept
  <2>4. ~Held'
    BY <1>3 DEF Held
  <2>5. \A f \in DOMAIN RomFiles : rom'.rows[f] = Unread
    BY <2>1, NoRomHas
  <2> QED BY <1>3, <2>2, <2>3, <2>4, <2>5 DEF GamesInv, RowsOfGames, FreshInv
<1>4. CASE screen = "check" /\ screen' = "theme"
  <2>1. rom = NoRom /\ rom' = [rom EXCEPT !.list = LoadSaveList(store.list, @)]
    BY <1>4 DEF BesideMenu, GamesInv, ListKept
  <2>2. /\ DOMAIN rom' = {"list", "rows", "at", "copy", "cheats"}
        /\ rom'.list = LoadSaveList(store.list, <<>>)
        /\ rom'.rows = NoRom.rows /\ rom'.at = NoRom.at /\ rom'.cheats = NoRom.cheats
    BY <2>1, NoRomHas
  <2>3. rom'.list \in Seq(Infos)
    <3>1. <<>> \in Seq(Infos)
      OBVIOUS
    <3>2. store.list \in SavedLists
      BY DEF GamesInv, Shapes
    <3>3. LoadSaveList(store.list, <<>>) \in Seq(Infos)
      BY <3>1, <3>2, LoadedList
    <3> QED BY <2>2, <3>3
  <2>4. Shapes'
    BY <1>1, <2>2, <2>3, NoRomHas DEF GamesInv, Shapes
  <2>5. ListKept'
    BY <1>1, <1>4, <2>2 DEF GamesInv, ListKept
  <2>6. ~Held'
    BY <1>4 DEF Held
  <2>7. \A f \in DOMAIN RomFiles : rom'.rows[f] = Unread
    BY <2>2, NoRomHas
  <2> QED BY <1>4, <2>4, <2>5, <2>6, <2>7 DEF GamesInv, RowsOfGames, FreshInv
<1>5. CASE screen' \notin {"off", "check"} /\ screen \notin {"off", "check"}
  <2>1. rom' = rom
    BY <1>5 DEF BesideMenu
  <2>2. ~Held'
    BY MenuSteps DEF Held
  <2>3. screen' # "game"
    BY MenuSteps
  <2>4. CASE ~Held
    BY <1>1, <1>5, <2>1, <2>2, <2>3, <2>4, Quiet DEF GamesInv, Shapes
  <2>5. CASE Held
    <3>1. screen \in {"info", "game", "cheats", "lost"}
      BY <2>5 DEF Held
    <3> QED BY <1>5, <3>1, MenuLeaves
  <2> QED BY <2>4, <2>5
<1> QED BY <1>2, <1>3, <1>4, <1>5, MenuSteps

\* updateCustomSaveList with an entry that is shown as told: all of it is
\* written, or the power goes off and the list is what it left.
LEMMA ListUpdated ==
    ASSUME GamesInv, screen \notin {"off", "check"},
           NEW info \in Infos, info.game \in Games, NEW shown, shown = ShownWith(info),
           NEW next \in {"info", "list"}, UpdateList(info, shown, next)
    PROVE  \/ GamesInv' /\ FreshInv'
           \/ /\ screen' = next
              /\ rom' = [rom EXCEPT !.list = UpdateCustomSaveList(rom.list, info),
                                    !.copy = IF next = "info" THEN info ELSE rom.copy]
              /\ DOMAIN store' = {"list", "cheats"} /\ DOMAIN told' = {"shown", "used"}
              /\ DOMAIN told'.shown = Games /\ store'.list \in SavedLists
              /\ rom'.list = LoadSaveList(store'.list, <<>>)
              /\ \A g \in Games :
                    told'.shown[g] = ShownWith(UpdateSaveInfoByInfo(rom'.list, g))
<1> DEFINE list == UpdateCustomSaveList(rom.list, info)
<1>1. /\ rom.list \in Seq(Infos) /\ DOMAIN rom = {"list", "rows", "at", "copy", "cheats"}
      /\ DOMAIN store = {"list", "cheats"} /\ DOMAIN told = {"shown", "used"}
      /\ DOMAIN told.shown = Games
  BY DEF GamesInv, Shapes
<1>2. /\ list \in Seq(Infos)
      /\ \A g \in Games : UpdateSaveInfoByInfo(list, g)
                             = IF g = info.game THEN info ELSE UpdateSaveInfoByInfo(rom.list, g)
  BY <1>1, UpdatedList
<1>3. ListFile(list) \in SavedLists /\ LoadSaveList(ListFile(list), <<>>) = list
  BY <1>2, WrittenList
<1>4. \A g \in Games : told.shown[g] = ShownWith(UpdateSaveInfoByInfo(rom.list, g))
  BY DEF GamesInv, ListKept
<1> HIDE DEF list
<1>5. CASE /\ store' = [store EXCEPT !.list = ListFile(list)]
           /\ told' = [told EXCEPT !.shown[info.game] = shown]
           /\ \/ /\ rom' = [rom EXCEPT !.list = list, !.copy = IF next = "info" THEN info ELSE @]
                 /\ screen' = next
              \/ Off
  <2>1. /\ DOMAIN store' = {"list", "cheats"} /\ store'.list = ListFile(list)
        /\ DOMAIN told' = {"shown", "used"} /\ DOMAIN told'.shown = Games
        /\ \A g \in Games : told'.shown[g] = IF g = info.game THEN shown ELSE told.shown[g]
    BY <1>1, <1>5
  <2>2. \A g \in Games : told'.shown[g] = ShownWith(UpdateSaveInfoByInfo(list, g))
    BY <1>2, <1>4, <2>1
  <2>3. CASE Off
    <3>1. screen' = "off" /\ rom' = NoRom
      BY <2>3 DEF Off
    <3> QED BY <1>3, <2>1, <2>2, <3>1, PoweredOff
  <2>4. CASE /\ rom' = [rom EXCEPT !.list = list, !.copy = IF next = "info" THEN info ELSE @]
             /\ screen' = next
    <3>1. rom'.list = list
      BY <1>1, <2>4
    <3> QED BY <1>3, <2>1, <2>2, <2>4, <3>1 DEF list
  <2> QED BY <1>5, <2>3, <2>4
<1>6. CASE /\ Cut
           /\ \E left \in CutLists(list) :
                 /\ store' = [store EXCEPT !.list = left]
                 /\ told' = [told EXCEPT !.shown = [g \in Games |->
                                ShownWith(UpdateSaveInfoByInfo(LoadSaveList(left, <<>>), g))]]
  <2>1. PICK left \in CutLists(list) :
           /\ store' = [store EXCEPT !.list = left]
           /\ told' = [told EXCEPT !.shown = [g \in Games |->
                          ShownWith(UpdateSaveInfoByInfo(LoadSaveList(left, <<>>), g))]]
    BY <1>6
  <2>2. left \in SavedLists
    BY <1>3, <2>1 DEF CutLists, SavedLists
  <2>3. /\ DOMAIN store' = {"list", "cheats"} /\ store'.list = left
        /\ DOMAIN told' = {"shown", "used"} /\ DOMAIN told'.shown = Games
        /\ \A g \in Games : told'.shown[g]
              = ShownWith(UpdateSaveInfoByInfo(LoadSaveList(left, <<>>), g))
    BY <1>1, <2>1
  <2>4. screen' = "off" /\ rom' = NoRom
    BY <1>6 DEF Cut, Off
  <2> QED BY <2>2, <2>3, <2>4, PoweredOff
<1> QED BY <1>5, <1>6 DEF UpdateList, list

\* The rows, the copy and the list after an update that the copy takes over:
\* the rows of the game may be behind, the copy is not.
LEMMA ConfirmKeeps ==
    ASSUME GamesInv, FreshInv, ConfirmGame
    PROVE  GamesInv' /\ FreshInv'
<1> DEFINE info == ApplyToCopy
<1>1. screen = "game" /\ UpdateList(info, AfterOk, "info")
  BY DEF ConfirmGame
<1>2. GameWindow /\ OfItsGame(rom.copy, rom.at) /\ rom.at \in DOMAIN RomFiles
  BY <1>1 DEF GamesInv, Shapes, RowsOfGames, Held
<1>3. info \in Infos /\ info.game = GameOf(rom.at) /\ ShownWith(info) = AfterOk
  BY <1>2, OkKeeps DEF OfItsGame
<1>4. info.game \in Games
  BY <1>2, <1>3, RomInfoAssumption DEF GameOf
<1> HIDE DEF info
<1>5. CASE GamesInv' /\ FreshInv'
  BY <1>5
<1>6. CASE /\ screen' = "info"
           /\ rom' = [rom EXCEPT !.list = UpdateCustomSaveList(rom.list, info),
                                 !.copy = info]
           /\ DOMAIN store' = {"list", "cheats"} /\ DOMAIN told' = {"shown", "used"}
           /\ DOMAIN told'.shown = Games /\ store'.list \in SavedLists
           /\ rom'.list = LoadSaveList(store'.list, <<>>)
           /\ \A g \in Games :
                 told'.shown[g] = ShownWith(UpdateSaveInfoByInfo(rom'.list, g))
  <2> DEFINE list == UpdateCustomSaveList(rom.list, info)
  <2>1. Shapes
    BY DEF GamesInv
  <2>2. /\ DOMAIN rom' = DOMAIN rom /\ rom'.list = list /\ rom'.rows = rom.rows
        /\ rom'.at = rom.at /\ rom'.copy = info /\ rom'.cheats = rom.cheats
    BY <1>6, <2>1 DEF Shapes
  <2>3. /\ list \in Seq(Infos)
        /\ \A g \in Games : UpdateSaveInfoByInfo(list, g)
              = IF g = info.game THEN info ELSE UpdateSaveInfoByInfo(rom.list, g)
    BY <1>3, <2>1, UpdatedList DEF Shapes
  <2> HIDE DEF list
  <2>4. Shapes'
    BY <1>6, <2>1, <2>2, <2>3 DEF Shapes
  <2>5. ListKept'
    BY <1>6 DEF ListKept
  <2>6. RowsOfGames'
    BY <1>3, <1>6, <2>2 DEF GamesInv, RowsOfGames, OfItsGame
  <2>7. ASSUME NEW h \in DOMAIN RomFiles
        PROVE  LookedUp(list, h) = IF GameOf(h) = GameOf(rom.at) THEN info ELSE LookedUp(rom.list, h)
    BY <1>3, <2>3, RomInfoAssumption DEF LookedUp, GameOf
  <2>8. Held' /\ CopyIsFresh'
    BY <1>2, <1>6, <2>2, <2>7 DEF Held, CopyIsFresh, Like
  <2>9. ASSUME NEW f \in DOMAIN RomFiles, Kind(f).dsRom, rom.rows[f] # Unread
        PROVE  \/ SomeFresh(f)'
               \/ Kind(rom.at).dsRom /\ GameOf(rom.at) = GameOf(f)
    <3>1. CASE GameOf(f) = GameOf(rom.at)
      BY <1>1, <3>1 DEF GamesInv, RowsOfGames
    <3>2. CASE GameOf(f) # GameOf(rom.at)
      <4>1. PICK h \in DOMAIN RomFiles : GameOf(h) = GameOf(f) /\ RowIsFresh(h)
        BY <2>9, <3>2 DEF FreshInv, SomeFresh
      <4>2. LookedUp(list, h) = LookedUp(rom.list, h)
        BY <2>7, <3>2, <4>1
      <4> QED BY <2>2, <4>1, <4>2 DEF SomeFresh, RowIsFresh
    <3> QED BY <3>1, <3>2
  <2> QED BY <2>2, <2>4, <2>5, <2>6, <2>8, <2>9 DEF GamesInv, FreshInv
<1> QED BY <1>1, <1>3, <1>4, <1>5, <1>6, ListUpdated DEF GamesInv, Shapes

\* A launch writes what its row remembers, with another type of save: the rows
\* that were as the list said still are, but for the type.
LEMMA LaunchKeeps ==
    ASSUME GamesInv, FreshInv, NEW f \in DOMAIN RomFiles, LaunchGame(f)
    PROVE  GamesInv' /\ FreshInv'
<1> DEFINE info == [RowOf(f) EXCEPT !.type = PrefillGame[GameOf(f)]]
<1>1. screen = "list" /\ Kind(f).dsRom /\ UpdateList(info, ShownWith(info), "list")
  BY DEF LaunchGame, MayOpen
<1>2. GameOf(f) \in Games /\ PrefillGame[GameOf(f)] \in Types
  BY RomInfoAssumption DEF GameOf
<1>3. RowOf(f) \in Infos /\ RowOf(f).game = GameOf(f)
  BY RowOfItsGame DEF OfItsGame
<1>4. info \in Infos /\ info.game = GameOf(f) /\ Like(info, RowOf(f))
  <2> DEFINE row == RowOf(f)
             type == PrefillGame[GameOf(f)]
  <2>1. row \in Infos /\ row.game = GameOf(f) /\ type \in Types
    BY <1>2, <1>3
  <2> HIDE DEF row, type
  <2>2. [row EXCEPT !.type = type] \in Infos /\ [row EXCEPT !.type = type].game = GameOf(f)
    BY <2>1 DEF Infos
  <2>3. Like([row EXCEPT !.type = type], row)
    BY <2>1 DEF Like, Infos
  <2> QED BY <2>2, <2>3 DEF row, type
<1> HIDE DEF info
<1>5. CASE /\ screen' = "list"
           /\ rom' = [rom EXCEPT !.list = UpdateCustomSaveList(rom.list, info),
                                 !.copy = rom.copy]
           /\ DOMAIN store' = {"list", "cheats"} /\ DOMAIN told' = {"shown", "used"}
           /\ DOMAIN told'.shown = Games /\ store'.list \in SavedLists
           /\ rom'.list = LoadSaveList(store'.list, <<>>)
           /\ \A g \in Games :
                 told'.shown[g] = ShownWith(UpdateSaveInfoByInfo(rom'.list, g))
  <2> DEFINE list == UpdateCustomSaveList(rom.list, info)
  <2>1. Shapes
    BY DEF GamesInv
  <2>2. /\ DOMAIN rom' = DOMAIN rom /\ rom'.list = list /\ rom'.rows = rom.rows
        /\ rom'.at = rom.at /\ rom'.cheats = rom.cheats
    BY <1>5, <2>1 DEF Shapes
  <2>3. /\ list \in Seq(Infos)
        /\ \A g \in Games : UpdateSaveInfoByInfo(list, g)
              = IF g = info.game THEN info ELSE UpdateSaveInfoByInfo(rom.list, g)
    BY <1>4, <2>1, UpdatedList DEF Shapes
  <2> HIDE DEF list
  <2>4. Shapes'
    BY <1>5, <2>1, <2>2, <2>3 DEF Shapes
  <2>5. ListKept'
    BY <1>5 DEF ListKept
  <2>6. ~Held /\ ~Held'
    BY <1>1, <1>5 DEF Held
  <2>7. RowsOfGames'
    BY <1>5, <2>2, <2>6 DEF GamesInv, RowsOfGames, OfItsGame
  <2>8. ASSUME NEW h \in DOMAIN RomFiles
        PROVE  LookedUp(list, h) = IF GameOf(h) = GameOf(f) THEN info ELSE LookedUp(rom.list, h)
    BY <1>4, <2>3, RomInfoAssumption DEF LookedUp, GameOf
  <2>9. ASSUME NEW k \in DOMAIN RomFiles, Kind(k).dsRom, rom.rows[k] # Unread
        PROVE  SomeFresh(k)'
    <3>1. PICK h \in DOMAIN RomFiles : GameOf(h) = GameOf(k) /\ RowIsFresh(h)
      BY <2>6, <2>9 DEF FreshInv, SomeFresh
    <3>2. CASE GameOf(k) # GameOf(f)
      <4>1. LookedUp(list, h) = LookedUp(rom.list, h)
        BY <2>8, <3>1, <3>2
      <4> QED BY <2>2, <3>1, <4>1 DEF SomeFresh, RowIsFresh
    <3>3. CASE GameOf(k) = GameOf(f) /\ rom.rows[f] # Unread
      <4>1. RowOf(f) = rom.rows[f] /\ LookedUp(list, f) = info
        BY <2>8, <3>3 DEF RowOf
      <4>2. Like(rom.rows[f], LookedUp(list, f))
        BY <1>4, <4>1 DEF Like
      <4> QED BY <2>2, <3>3, <4>2 DEF SomeFresh, RowIsFresh
    <3>4. CASE GameOf(k) = GameOf(f) /\ rom.rows[f] = Unread
      <4>1. RowOf(f) = LookedUp(rom.list, f) /\ LookedUp(rom.list, f) = LookedUp(rom.list, h)
              /\ LookedUp(list, h) = info
        BY <2>8, <3>1, <3>4 DEF RowOf, LookedUp
      <4>2. Like(rom.rows[h], LookedUp(list, h))
        BY <1>4, <3>1, <4>1 DEF Like, RowIsFresh
      <4> QED BY <2>2, <3>1, <4>2 DEF SomeFresh, RowIsFresh
    <3> QED BY <3>2, <3>3, <3>4
  <2> QED BY <2>2, <2>4, <2>5, <2>6, <2>7, <2>9 DEF GamesInv, FreshInv
<1>6. screen \notin {"off", "check"} /\ info.game \in Games /\ ("list" = "info" => FALSE)
  BY <1>1, <1>2, <1>4
<1> QED BY <1>1, <1>4, <1>5, <1>6, ListUpdated

\* Rows that are read as they are drawn are as the list says.
LEMMA DrawKeeps ==
    ASSUME GamesInv, FreshInv, DrawRows
    PROVE  GamesInv' /\ FreshInv'
<1>1. screen = "list" /\ screen' = screen /\ store' = store /\ told' = told
        /\ rom' = [rom EXCEPT !.rows = [f \in DOMAIN RomFiles |-> RowOf(f)]]
  BY DEF DrawRows, MayOpen, InMenu
<1>2. Shapes /\ ListKept
  BY DEF GamesInv
<1>3. /\ DOMAIN rom' = DOMAIN rom /\ rom'.list = rom.list
      /\ rom'.rows = [f \in DOMAIN RomFiles |-> RowOf(f)]
      /\ rom'.at = rom.at /\ rom'.cheats = rom.cheats
  BY <1>1, <1>2 DEF Shapes
<1>4. ASSUME NEW f \in DOMAIN RomFiles
      PROVE  OfItsGame(rom'.rows[f], f) /\ rom'.rows[f] = RowOf(f) /\ rom'.rows[f] # Unread
  BY <1>3, RowOfItsGame, ReadIsNotUnread DEF OfItsGame
<1>5. Shapes'
  BY <1>1, <1>2, <1>3, <1>4 DEF Shapes, OfItsGame
<1>6. ListKept'
  BY <1>1, <1>2, <1>3 DEF ListKept
<1>7. ~Held /\ ~Held'
  BY <1>1 DEF Held
<1>8. RowsOfGames'
  BY <1>1, <1>4, <1>7 DEF RowsOfGames, OfItsGame
<1>9. ASSUME NEW f \in DOMAIN RomFiles, Kind(f).dsRom PROVE SomeFresh(f)'
  <2>1. CASE rom.rows[f] = Unread
    <3>1. rom'.rows[f] = LookedUp(rom.list, f)
      BY <1>4, <2>1 DEF RowOf
    <3> QED BY <1>3, <1>4, <3>1 DEF SomeFresh, RowIsFresh, Like
  <2>2. CASE rom.rows[f] # Unread
    <3>1. PICK h \in DOMAIN RomFiles : GameOf(h) = GameOf(f) /\ RowIsFresh(h)
      BY <1>7, <1>9, <2>2 DEF FreshInv, SomeFresh
    <3>2. rom'.rows[h] = rom.rows[h]
      BY <1>4, <3>1 DEF RowOf, RowIsFresh
    <3> QED BY <1>3, <3>1, <3>2 DEF SomeFresh, RowIsFresh
  <2> QED BY <2>1, <2>2
<1> QED BY <1>5, <1>6, <1>7, <1>8, <1>9 DEF GamesInv, FreshInv

\* Another directory: its rows are not read yet.
LEMMA EnterKeeps ==
    ASSUME GamesInv, FreshInv, EnterDir
    PROVE  GamesInv' /\ FreshInv'
<1>1. screen = "list" /\ screen' = screen /\ store' = store /\ told' = told
        /\ rom' = [rom EXCEPT !.rows = NoRom.rows]
  BY DEF EnterDir, MayOpen, InMenu
<1>2. Shapes /\ ListKept
  BY DEF GamesInv
<1>3. /\ DOMAIN rom' = DOMAIN rom /\ rom'.list = rom.list
      /\ rom'.rows = NoRom.rows /\ rom'.at = rom.at /\ rom'.cheats = rom.cheats
  BY <1>1, <1>2 DEF Shapes
<1>4. \A f \in DOMAIN RomFiles : rom'.rows[f] = Unread
  BY <1>3, NoRomHas
<1>5. Shapes'
  BY <1>1, <1>2, <1>3, NoRomHas DEF Shapes
<1>6. ListKept'
  BY <1>1, <1>2, <1>3 DEF ListKept
<1>7. ~Held'
  BY <1>1 DEF Held
<1> QED BY <1>1, <1>4, <1>5, <1>6, <1>7 DEF GamesInv, RowsOfGames, FreshInv

\* The information window works on a copy of the row.
LEMMA ShowKeeps ==
    ASSUME GamesInv, FreshInv, NEW f \in DOMAIN RomFiles, ShowFileInfo(f)
    PROVE  GamesInv' /\ FreshInv'
<1>1. screen = "list" /\ screen' = "info" /\ store' = store /\ told' = told
        /\ rom' = [rom EXCEPT !.at = f, !.copy = RowOf(f)]
  BY DEF ShowFileInfo, MayOpen, InMenu
<1>2. Shapes /\ ListKept
  BY DEF GamesInv
<1>3. /\ DOMAIN rom' = DOMAIN rom /\ rom'.list = rom.list /\ rom'.rows = rom.rows
      /\ rom'.at = f /\ rom'.copy = RowOf(f) /\ rom'.cheats = rom.cheats
  BY <1>1, <1>2 DEF Shapes
<1>4. Shapes'
  BY <1>1, <1>2, <1>3 DEF Shapes
<1>5. ListKept'
  BY <1>1, <1>2, <1>3 DEF ListKept
<1>6. ~Held
  BY <1>1 DEF Held
<1>7. OfItsGame(rom'.copy, rom'.at)
  BY <1>3, RowOfItsGame
<1>8. RowsOfGames'
  BY <1>1, <1>3, <1>7 DEF GamesInv, RowsOfGames, OfItsGame
<1>9. \A k \in DOMAIN RomFiles : Kind(k).dsRom /\ rom'.rows[k] # Unread => SomeFresh(k)'
  BY <1>3, <1>6 DEF FreshInv, SomeFresh, RowIsFresh
<1>10. rom'.copy = rom'.rows[rom'.at] \/ CopyIsFresh'
  BY <1>3 DEF RowOf, CopyIsFresh, Like
<1> QED BY <1>4, <1>5, <1>8, <1>9, <1>10 DEF GamesInv, FreshInv

\* The row of a ROM takes the copy back; any other row is read, if it was not.
LEMMA CloseKeeps ==
    ASSUME GamesInv, FreshInv, CloseFileInfo
    PROVE  GamesInv' /\ FreshInv'
<1>0. PICK at \in DOMAIN RomFiles : at = rom.at
  BY DEF GamesInv, Shapes
<1> DEFINE row == IF Kind(at).dsRom THEN rom.copy ELSE RowOf(at)
<1>1. screen = "info" /\ screen' = "list" /\ store' = store /\ told' = told
        /\ rom' = [rom EXCEPT !.rows[at] = row, !.copy = Unread]
  BY <1>0 DEF CloseFileInfo, InMenu
<1>2. Shapes /\ ListKept
  BY DEF GamesInv
<1>3. Held /\ ~Held'
  BY <1>1 DEF Held
<1>4. OfItsGame(rom.copy, at) /\ OfItsGame(RowOf(at), at)
  BY <1>0, <1>3, RowOfItsGame DEF GamesInv, RowsOfGames
<1>5. OfItsGame(row, at) /\ row # Unread
  BY <1>4, ReadIsNotUnread DEF OfItsGame
<1>6. rom.copy = rom.rows[at] \/ CopyIsFresh
  BY <1>0, <1>3 DEF FreshInv
<1>7. RowOf(at) = rom.rows[at] \/ Like(RowOf(at), LookedUp(rom.list, at))
  BY DEF RowOf, Like
<1>8. Kind(at).dsRom => row = rom.copy
  OBVIOUS
<1>9. ~Kind(at).dsRom => row = RowOf(at)
  OBVIOUS
<1> HIDE DEF row
<1>10. /\ DOMAIN rom' = DOMAIN rom /\ rom'.list = rom.list /\ rom'.at = rom.at
       /\ rom'.rows = [rom.rows EXCEPT ![at] = row] /\ rom'.cheats = rom.cheats
  BY <1>1, <1>2 DEF Shapes
<1>11. \A f \in DOMAIN RomFiles : rom'.rows[f] = IF f = at THEN row ELSE rom.rows[f]
  BY <1>2, <1>10 DEF Shapes
<1>12. Shapes'
  BY <1>1, <1>2, <1>5, <1>10 DEF Shapes, OfItsGame
<1>13. ListKept'
  BY <1>1, <1>2, <1>10 DEF ListKept
<1>14. RowsOfGames'
  BY <1>0, <1>1, <1>3, <1>5, <1>11 DEF GamesInv, RowsOfGames, OfItsGame
<1>15. row = rom.rows[at] \/ Like(row, LookedUp(rom.list, at))
  BY <1>0, <1>6, <1>7, <1>8, <1>9 DEF CopyIsFresh
<1>16. ASSUME Like(row, LookedUp(rom.list, at)) PROVE SomeFresh(at)' /\ RowIsFresh(at)'
  BY <1>2, <1>5, <1>10, <1>11, <1>16 DEF SomeFresh, RowIsFresh
<1>17. ASSUME NEW f \in DOMAIN RomFiles, Kind(f).dsRom, rom'.rows[f] # Unread
       PROVE  SomeFresh(f)'
  <2>1. CASE GameOf(f) = GameOf(at) /\ Like(row, LookedUp(rom.list, at))
    BY <1>2, <1>16, <2>1 DEF SomeFresh
  <2>2. CASE ~(GameOf(f) = GameOf(at) /\ Like(row, LookedUp(rom.list, at)))
    <3>1. rom.rows[f] # Unread
      BY <1>11, <1>15, <1>17, <2>2
    <3>2. \/ SomeFresh(f)
          \/ Kind(at).dsRom /\ GameOf(at) = GameOf(f) /\ CopyIsFresh
      BY <1>17, <3>1, <1>0 DEF FreshInv
    <3>3. SomeFresh(f)
      BY <1>8, <2>2, <3>2, <1>0 DEF CopyIsFresh
    <3>4. PICK h \in DOMAIN RomFiles : GameOf(h) = GameOf(f) /\ RowIsFresh(h)
      BY <3>3 DEF SomeFresh
    <3>5. rom'.rows[h] = rom.rows[h]
      BY <1>11, <1>15, <2>2, <3>4
    <3> QED BY <1>10, <3>4, <3>5 DEF SomeFresh, RowIsFresh
  <2> QED BY <2>1, <2>2
<1> QED BY <1>3, <1>12, <1>13, <1>14, <1>17 DEF GamesInv, FreshInv

\* The windows of a game: its settings and its cheats.
LEMMA PressKeeps ==
    ASSUME GamesInv, FreshInv, PressSaveType
    PROVE  GamesInv' /\ FreshInv'
<1> DEFINE tabs == GameTabs(rom.at, rom.copy)
<1>1. screen = "info" /\ screen' = "game" /\ store' = store /\ told' = told /\ rom' = rom
        /\ Kind(rom.at).dsRom /\ gs' = gs /\ console' = console
        /\ win' = NewWindow(tabs, [k \in Rows(tabs) |-> ShownOf(rom.copy, k)])
  BY DEF PressSaveType, Menu
<1>2. Shapes /\ OfItsGame(rom.copy, rom.at)
  BY <1>1 DEF GamesInv, RowsOfGames, Held
<1>3. \A k \in Rows(tabs) : ShownOf(rom.copy, k) \in 0 .. GameTexts(k) - 1
                               /\ GameTexts(k) \in Nat
  BY <1>2, GameRows, ShownInRange DEF OfItsGame, GameTexts
<1>4. "sel" \in DOMAIN win' /\ win'.sel = [k \in Rows(tabs) |-> ShownOf(rom.copy, k)]
  BY <1>1 DEF NewWindow, ShowTab
<1>5. GameTabs(rom.at, rom.copy)' = tabs
  BY <1>1 DEF GameTabs
<1> HIDE DEF tabs
<1>6. GameWindow'
  BY <1>3, <1>4, <1>5 DEF GameWindow
<1>7. Held /\ Held'
  BY <1>1 DEF Held
<1> QED BY <1>1, <1>2, <1>6, <1>7, Quiet DEF Shapes

\* LEFT and RIGHT turn one row, to another of its texts.
LEMMA TurnKeeps ==
    ASSUME GamesInv, FreshInv, TurnGame
    PROVE  GamesInv' /\ FreshInv'
<1> DEFINE rows == Rows(GameTabs(rom.at, rom.copy))
<1>1. screen = "game" /\ screen' = screen /\ store' = store /\ told' = told /\ rom' = rom
        /\ gs' = gs /\ console' = console
  BY DEF TurnGame, Menu
<1>2. Shapes /\ GameWindow /\ Kind(rom.at).dsRom
  BY <1>1 DEF GamesInv, RowsOfGames
<1>3. GameTabs(rom.at, rom.copy)' = GameTabs(rom.at, rom.copy)
  BY <1>1 DEF GameTabs
<1>4. PICK k \in rows, step \in {-1, 1} : win' \in Turn(win, k, step, GameTexts(k))
  BY <1>2 DEF TurnGame, GameWindow
<1>5. /\ 0 <= win.sel[k] + step /\ win.sel[k] + step < GameTexts(k)
      /\ win' = [win EXCEPT !.sel[k] = @ + step]
  BY <1>4 DEF Turn
<1>6. GameTexts(k) \in Nat
  BY DEF GameTexts
<1>7. "sel" \in DOMAIN win' /\ win'.sel = [win.sel EXCEPT ![k] = @ + step]
  BY <1>2, <1>5 DEF GameWindow
<1>8. win.sel \in [rows -> Int] /\ \A j \in rows : win.sel[j] \in 0 .. GameTexts(j) - 1
  BY <1>2 DEF GameWindow
<1> HIDE DEF rows
<1>9. win'.sel \in [rows -> Int]
  BY <1>7, <1>8
<1>10. ASSUME NEW j \in rows PROVE win'.sel[j] \in 0 .. GameTexts(j) - 1
  <2>1. CASE j = k
    <3>1. win'.sel[j] = win.sel[k] + step /\ win.sel[k] + step \in Int
      BY <1>7, <1>8, <2>1
    <3> QED BY <1>5, <1>6, <2>1, <3>1
  <2>2. CASE j # k
    BY <1>7, <1>8, <2>2
  <2> QED BY <2>1, <2>2
<1>11. GameWindow'
  BY <1>3, <1>7, <1>9, <1>10 DEF GameWindow, rows
<1>12. Held /\ Held'
  BY <1>1 DEF Held
<1> QED BY <1>1, <1>2, <1>11, <1>12, Quiet DEF Shapes

\* The cheat window gives way to the window it was opened over.
LEMMA CheatsClosed ==
    ASSUME GamesInv, FreshInv, screen = "cheats", screen' = rom.cheats.from,
           rom' = [rom EXCEPT !.cheats = NoCheats],
           DOMAIN store' = DOMAIN store, store'.list = store.list,
           DOMAIN told' = DOMAIN told, told'.shown = told.shown
    PROVE  GamesInv' /\ FreshInv'
<1>0. Shapes
  BY DEF GamesInv
<1>1. /\ DOMAIN rom' = DOMAIN rom /\ rom'.list = rom.list /\ rom'.rows = rom.rows
      /\ rom'.at = rom.at /\ rom'.copy = rom.copy /\ rom'.cheats = NoCheats
  BY <1>0 DEF Shapes
<1>2. screen' \in {"list", "info"}
  BY <1>0 DEF Shapes
<1>3. Held <=> Held'
  BY <1>0, <1>2 DEF Held, Shapes
<1>4. DOMAIN NoCheats = {"list", "open", "sel", "from"} /\ NoCheats.from = "list"
  BY DEF NoCheats
<1> QED BY <1>0, <1>1, <1>2, <1>3, <1>4, Quiet DEF Shapes

\* Nothing of the cheat window is about the list or the rows.
LEMMA CheatsLeaveRows ==
    ASSUME GamesInv, FreshInv,
           \/ CancelGame \/ PressCheats \/ MoveInCheats \/ LeftOfFirst \/ SelectCheat
           \/ SelectNothing \/ DeselectAll \/ CancelCheats
    PROVE  GamesInv' /\ FreshInv'
<1>0. Shapes
  BY DEF GamesInv
<1>1. CASE CancelGame
  <2>1. screen = "game" /\ screen' = "info" /\ store' = store /\ told' = told /\ rom' = rom
    BY <1>1 DEF CancelGame
  <2>2. Held /\ Held'
    BY <2>1 DEF Held
  <2> QED BY <1>0, <2>1, <2>2, Quiet DEF Shapes
<1>2. ASSUME NEW f \in DOMAIN RomFiles, NEW from, ShowCheats(f, from),
             \/ screen = "info" /\ from = "info" /\ f = rom.at
             \/ screen = "list" /\ from = "list"
      PROVE  GamesInv' /\ FreshInv'
  <2> DEFINE rec == Record(GameOf(f))
             cheats == [NoCheats EXCEPT !.list = Filled(@, Len(RowsShown(rec, {}))),
                                        !.from = from,
                                        !.sel = Parsed(rec, store.cheats[GameOf(f)])]
  <2>1. screen' = "cheats" /\ store' = store /\ told' = told
          /\ rom' = [rom EXCEPT !.at = f, !.cheats = cheats]
    BY <1>2 DEF ShowCheats, InMenu
  <2>2. DOMAIN cheats = {"list", "open", "sel", "from"} /\ cheats.from = from
    BY DEF NoCheats
  <2> HIDE DEF cheats
  <2>3. /\ DOMAIN rom' = DOMAIN rom /\ rom'.list = rom.list /\ rom'.rows = rom.rows
        /\ rom'.at = f /\ rom'.copy = rom.copy /\ rom'.cheats = cheats
    BY <1>0, <2>1 DEF Shapes
  <2>4. CASE screen = "info" /\ from = "info" /\ f = rom.at
    <3>1. Held /\ Held'
      BY <2>1, <2>2, <2>3, <2>4 DEF Held
    <3> QED BY <1>0, <2>1, <2>2, <2>3, <2>4, <3>1, Quiet DEF Shapes
  <2>5. CASE screen = "list" /\ from = "list"
    <3>1. ~Held /\ ~Held'
      BY <2>1, <2>2, <2>3, <2>5 DEF Held
    <3>2. Shapes'
      BY <1>0, <2>1, <2>2, <2>3, <2>5 DEF Shapes
    <3>3. ListKept'
      BY <2>1, <2>3, <2>5 DEF GamesInv, ListKept
    <3>4. RowsOfGames'
      BY <2>1, <2>3, <3>1 DEF GamesInv, RowsOfGames, OfItsGame
    <3>5. FreshInv'
      BY <2>3, <3>1 DEF FreshInv, SomeFresh, RowIsFresh
    <3> QED BY <3>2, <3>3, <3>4, <3>5 DEF GamesInv
  <2> QED BY <1>2, <2>4, <2>5
<1>3. CASE PressCheats
  <2>1. rom.at \in DOMAIN RomFiles
    BY <1>0 DEF Shapes
  <2> QED BY <1>2, <1>3, <2>1 DEF PressCheats, MayOpen
<1>4. ASSUME NEW cheats, InCheats(cheats), DOMAIN cheats = DOMAIN rom.cheats,
             cheats.from = rom.cheats.from
      PROVE  GamesInv' /\ FreshInv'
  <2>1. screen = "cheats" /\ screen' = screen /\ store' = store /\ told' = told
          /\ rom' = [rom EXCEPT !.cheats = cheats]
    BY <1>4 DEF InCheats, InMenu
  <2>2. /\ DOMAIN rom' = DOMAIN rom /\ rom'.list = rom.list /\ rom'.rows = rom.rows
        /\ rom'.at = rom.at /\ rom'.copy = rom.copy /\ rom'.cheats = cheats
    BY <1>0, <2>1 DEF Shapes
  <2>3. Held <=> Held'
    BY <1>4, <2>1, <2>2 DEF Held
  <2> QED BY <1>0, <1>4, <2>1, <2>2, <2>3, Quiet DEF Shapes
<1>5. ASSUME NEW list, InCheats([rom.cheats EXCEPT !.list = list])
      PROVE  GamesInv' /\ FreshInv'
  BY <1>0, <1>4, <1>5 DEF Shapes
<1>6. CASE MoveInCheats
  BY <1>5, <1>6 DEF MoveInCheats, PickCheat
<1>7. CASE screen = "cheats" /\ screen' = "lost" /\ UNCHANGED <<rom, used>> /\ InMenu
  <2>1. store' = store /\ told' = told /\ rom' = rom
    BY <1>7 DEF InMenu
  <2>2. Held <=> Held'
    BY <1>7, <2>1 DEF Held
  <2> QED BY <1>0, <1>7, <2>1, <2>2, Quiet DEF Shapes
<1>11. CASE LeftOfFirst \/ SelectNothing
  BY <1>5, <1>7, <1>11 DEF LeftOfFirst, SelectNothing, PickCheat
<1>8. CASE SelectCheat
  <2>1. ASSUME NEW sel, InCheats([rom.cheats EXCEPT !.sel = sel])
        PROVE  GamesInv' /\ FreshInv'
    BY <1>0, <1>4, <2>1 DEF Shapes
  <2>2. ASSUME NEW open, NEW list, InCheats([rom.cheats EXCEPT !.open = open, !.list = list])
        PROVE  GamesInv' /\ FreshInv'
    BY <1>0, <1>4, <2>2 DEF Shapes
  <2> QED BY <1>8, <2>1, <2>2 DEF SelectCheat
<1>9. CASE DeselectAll
  BY <1>0, <1>4, <1>9 DEF DeselectAll, Shapes
<1>10. CASE CancelCheats
  <2>1. screen = "cheats" /\ screen' = rom.cheats.from /\ store' = store /\ told' = told
          /\ rom' = [rom EXCEPT !.cheats = NoCheats]
    BY <1>10 DEF CancelCheats, InMenu
  <2> QED BY <1>0, <2>1, CheatsClosed
<1> QED BY <1>1, <1>3, <1>6, <1>8, <1>9, <1>10, <1>11

\* OK in the cheat window writes the cheat file alone.
LEMMA GenerateLeavesRows ==
    ASSUME GamesInv, FreshInv, GenerateCheats
    PROVE  GamesInv' /\ FreshInv'
<1>0. Shapes /\ ListKept
  BY DEF GamesInv
<1>1. screen = "cheats"
  BY DEF GenerateCheats
<1>2. ASSUME NEW bytes, NEW marked,
             store' = [store EXCEPT !.cheats[GameOf(rom.at)] = bytes],
             told' = [told EXCEPT !.used[GameOf(rom.at)] = marked]
      PROVE  /\ DOMAIN store' = DOMAIN store /\ store'.list = store.list
             /\ DOMAIN told' = DOMAIN told /\ told'.shown = told.shown
  BY <1>0, <1>2 DEF Shapes
<1>3. CASE /\ \E bytes, marked : /\ store' = [store EXCEPT !.cheats[GameOf(rom.at)] = bytes]
                                 /\ told' = [told EXCEPT !.used[GameOf(rom.at)] = marked]
           /\ rom' = [rom EXCEPT !.cheats = NoCheats] /\ screen' = rom.cheats.from
  BY <1>0, <1>1, <1>2, <1>3, CheatsClosed
<1>4. CASE /\ \E bytes, marked : /\ store' = [store EXCEPT !.cheats[GameOf(rom.at)] = bytes]
                                 /\ told' = [told EXCEPT !.used[GameOf(rom.at)] = marked]
           /\ Cut
  <2>1. screen' = "off" /\ rom' = NoRom
    BY <1>4 DEF Cut, Off
  <2>2. /\ DOMAIN store' = DOMAIN store /\ store'.list = store.list
        /\ DOMAIN told' = DOMAIN told /\ told'.shown = told.shown
    BY <1>2, <1>4
  <2> QED BY <1>0, <2>1, <2>2, PoweredOff DEF Shapes, ListKept
<1> QED BY <1>3, <1>4 DEF GenerateCheats

\* Every step keeps the list, the rows and the copy together.
LEMMA GamesStep ==
    ASSUME GamesInv, FreshInv, [MenuNext]_menuVars
    PROVE  GamesInv' /\ FreshInv'
<1>1. CASE Next /\ BesideMenu
  BY <1>1, BesideKeeps
<1>2. CASE DrawRows \/ EnterDir \/ CloseFileInfo
  BY <1>2, DrawKeeps, EnterKeeps, CloseKeeps
<1>3. CASE PressSaveType \/ TurnGame \/ ConfirmGame
  BY <1>3, PressKeeps, TurnKeeps, ConfirmKeeps
<1>4. ASSUME NEW f \in DOMAIN RomFiles, ShowFileInfo(f) \/ LaunchGame(f)
      PROVE  GamesInv' /\ FreshInv'
  BY <1>4, ShowKeeps, LaunchKeeps
<1>5. CASE \/ CancelGame \/ PressCheats \/ MoveInCheats \/ LeftOfFirst \/ SelectCheat
           \/ SelectNothing \/ DeselectAll \/ CancelCheats
  BY <1>5, CheatsLeaveRows
<1>6. CASE GenerateCheats
  BY <1>6, GenerateLeavesRows
<1>7. CASE UNCHANGED menuVars
  <2>1. rom' = rom /\ store' = store /\ told' = told /\ screen' = screen /\ win' = win
          /\ gs' = gs /\ console' = console
    BY <1>7 DEF menuVars, vars
  <2>2. Shapes'
    BY <2>1 DEF GamesInv, Shapes
  <2>3. ListKept'
    BY <2>1 DEF GamesInv, ListKept
  <2>4. Held' <=> Held
    BY <2>1 DEF Held
  <2>5. GameTabs(rom.at, rom.copy)' = GameTabs(rom.at, rom.copy)
    BY <2>1 DEF GameTabs
  <2>6. GameWindow' <=> GameWindow
    BY <2>1, <2>5 DEF GameWindow
  <2>7. RowsOfGames'
    BY <2>1, <2>4, <2>6 DEF GamesInv, RowsOfGames, OfItsGame
  <2>8. FreshInv'
    BY <2>1, <2>4 DEF FreshInv, SomeFresh, RowIsFresh, CopyIsFresh, LookedUp, Like
  <2> QED BY <2>2, <2>3, <2>7, <2>8 DEF GamesInv
<1> QED BY <1>1, <1>2, <1>3, <1>4, <1>5, <1>6, <1>7 DEF MenuNext

\* What a game's window of settings showed when OK was pressed is what the
\* list on the card and the list in memory say of the game from then on, for
\* any list, any rows and any number of files that are the same game.
THEOREM RomInfoGamesKept == MenuSpec => []GamesKept
<1>1. GamesInv => GamesKept
  BY DEF GamesInv, ListKept, GamesKept
<1> QED BY <1>1, GamesInitial, GamesStep, PTL DEF MenuSpec

\* Of the rows that were read one of each game is as the list says, whichever
\* file its settings were changed at and however often it was launched.
THEOREM RomInfoRowsFresh == MenuSpec => []RowsFresh
<1>1. FreshInv => RowsFresh
  <2> SUFFICES ASSUME FreshInv, screen = "list", NEW f \in DOMAIN RomFiles,
                      Kind(f).dsRom, rom.rows[f] # Unread
               PROVE  \E h \in DOMAIN RomFiles :
                          GameOf(h) = GameOf(f) /\ rom.rows[h] # Unread /\ UpToDate(h)
    BY DEF RowsFresh
  <2>1. SomeFresh(f)
    BY DEF FreshInv, Held
  <2> QED BY <2>1 DEF SomeFresh, RowIsFresh, Like, UpToDate
<1> QED BY <1>1, GamesInitial, GamesStep, PTL DEF MenuSpec

-----------------------------------------------------------------------------
(* Rows inserted one by one *)

\* Numbers that are reached from 0 one by one are all of them.
LEMMA Counting ==
    ASSUME NEW S, 0 \in S, \A n \in Nat : n \in S => n + 1 \in S
    PROVE  Nat \subseteq S
<1> DEFINE T == Nat \ S
<1> SUFFICES ASSUME T # {} PROVE FALSE
  OBVIOUS
<1>1. PICK x \in T : \A y \in T : x <= y
  BY Least
<1>2. x - 1 \in Nat /\ x - 1 \notin T
  BY <1>1
<1> QED BY <1>2

\* A loop that inserts some of a list's rows inserts rows of the list, and
\* none that it passes over.
Steps(list, S, g) ==
    g = [n \in DOMAIN g |->
            IF n = 0 THEN <<>>
            ELSE IF list[n] \in S THEN Append(g[n - 1], list[n]) ELSE g[n - 1]]

\* The loop as a function: what it has after n rows
LEMMA LoopRuns ==
    ASSUME NEW list, NEW S, NEW n \in Nat
    PROVE  \E g : DOMAIN g = 0 .. n /\ Steps(list, S, g)
<1> DEFINE Runs == {k \in Nat : \E g : DOMAIN g = 0 .. k /\ Steps(list, S, g)}
<1>1. 0 \in Runs
  <2> DEFINE g == [k \in 0 .. 0 |-> <<>>]
  <2>1. DOMAIN g = 0 .. 0 /\ Steps(list, S, g)
    BY DEF Steps
  <2> QED BY <2>1
<1>2. ASSUME NEW k \in Nat, k \in Runs PROVE k + 1 \in Runs
  <2>1. PICK g : DOMAIN g = 0 .. k /\ Steps(list, S, g)
    BY <1>2
  <2> DEFINE last == IF list[k + 1] \in S THEN Append(g[k], list[k + 1]) ELSE g[k]
  <2> HIDE DEF last
  <2> DEFINE h == [i \in 0 .. k + 1 |-> IF i = k + 1 THEN last ELSE g[i]]
  <2>2. \A i \in 0 .. k + 1 :
           h[i] = IF i = 0 THEN <<>>
                  ELSE IF list[i] \in S THEN Append(h[i - 1], list[i]) ELSE h[i - 1]
    <3> SUFFICES ASSUME NEW i \in 0 .. k + 1
                 PROVE  h[i] = IF i = 0 THEN <<>>
                               ELSE IF list[i] \in S THEN Append(h[i - 1], list[i]) ELSE h[i - 1]
      OBVIOUS
    <3>1. CASE i = k + 1
      <4>1. h[i] = last /\ h[i - 1] = g[k] /\ i # 0
        BY <3>1
      <4> QED BY <3>1, <4>1 DEF last
    <3>2. CASE i = 0
      <4>1. 0 \in 0 .. k
        OBVIOUS
      <4>2. g[0] = <<>>
        BY <2>1, <4>1 DEF Steps
      <4> QED BY <3>2, <4>2
    <3>3. CASE i \in 1 .. k
      <4>1. i \in 0 .. k /\ i # 0 /\ h[i] = g[i] /\ h[i - 1] = g[i - 1]
        BY <3>3
      <4>2. g[i] = IF list[i] \in S THEN Append(g[i - 1], list[i]) ELSE g[i - 1]
        BY <2>1, <4>1 DEF Steps
      <4> QED BY <4>1, <4>2
    <3> QED BY <3>1, <3>2, <3>3
  <2>3. DOMAIN h = 0 .. k + 1 /\ h = [i \in DOMAIN h |-> h[i]]
    OBVIOUS
  <2> HIDE DEF h
  <2>4. Steps(list, S, h)
    BY <2>2, <2>3 DEF Steps
  <2> QED BY <2>3, <2>4
<1> HIDE DEF Runs
<1>3. n \in Runs
  BY <1>1, <1>2, Counting
<1> QED BY <1>3 DEF Runs

\* Inserted has the rows of the list that are in S and no others.
LEMMA InsertedRows ==
    ASSUME NEW V, NEW list \in Seq(V), NEW S
    PROVE  Inserted(list, S) \in Seq({list[i] : i \in 1 .. Len(list)} \cap S)
<1> DEFINE W == {list[i] : i \in 1 .. Len(list)} \cap S
           g == InsertedUpTo(list, S)
<1>1. DOMAIN g = 0 .. Len(list) /\ Steps(list, S, g)
  <2>0. Len(list) \in Nat
    OBVIOUS
  <2>1. PICK f : DOMAIN f = 0 .. Len(list) /\ Steps(list, S, f)
    BY <2>0, LoopRuns
  <2>2. f = [n \in 0 .. Len(list) |->
                IF n = 0 THEN <<>>
                ELSE IF list[n] \in S THEN Append(f[n - 1], list[n]) ELSE f[n - 1]]
    BY <2>1 DEF Steps
  <2>3. g = [n \in 0 .. Len(list) |->
                IF n = 0 THEN <<>>
                ELSE IF list[n] \in S THEN Append(g[n - 1], list[n]) ELSE g[n - 1]]
    BY <2>2 DEF InsertedUpTo
  <2> HIDE DEF g
  <2>4. DOMAIN g = 0 .. Len(list)
    BY <2>3
  <2> QED BY <2>3, <2>4 DEF Steps
<1> HIDE DEF g
<1> DEFINE Good == {n \in Nat : n <= Len(list) => g[n] \in Seq(W)}
<1>2. 0 \in Good
  <2>1. 0 \in 0 .. Len(list)
    OBVIOUS
  <2>2. g[0] = <<>>
    BY <1>1, <2>1 DEF Steps
  <2> HIDE DEF W
  <2>3. g[0] \in Seq(W)
    BY <2>2
  <2> QED BY <2>3
<1>3. ASSUME NEW n \in Nat, n \in Good PROVE n + 1 \in Good
  <2> SUFFICES ASSUME n + 1 <= Len(list) PROVE g[n + 1] \in Seq(W)
    OBVIOUS
  <2>1. g[n] \in Seq(W)
    BY <1>3
  <2>2. n + 1 \in 0 .. Len(list) /\ n + 1 # 0 /\ (n + 1) - 1 = n /\ n + 1 \in 1 .. Len(list)
    OBVIOUS
  <2>3. g[n + 1] = IF list[n + 1] \in S THEN Append(g[n], list[n + 1]) ELSE g[n]
    BY <1>1, <2>2 DEF Steps
  <2>4. list[n + 1] \in S => list[n + 1] \in W
    BY <2>2
  <2> HIDE DEF W
  <2> QED BY <2>1, <2>3, <2>4
<1> HIDE DEF Good
<1>4. Len(list) \in Good
  BY <1>2, <1>3, Counting
<1> QED BY <1>4 DEF Good, Inserted, g

-----------------------------------------------------------------------------
(* The tree of the cheats *)
\* The rows of the cheat window are items of the record.
LEMMA RowsAreItems ==
    ASSUME NEW rec \in Seq(Places), NEW open
    PROVE  RowsShown(rec, open) \in Seq(ItemsOf(rec))
<1> DEFINE places == [p \in DOMAIN rec |-> p]
<1>1. places \in Seq(Nat) /\ Len(places) = Len(rec)
  OBVIOUS
<1>2. Items(rec) \in Seq({places[i] : i \in 1 .. Len(places)} \cap ItemsOf(rec))
  BY <1>1, InsertedRows DEF Items
<1>3. Items(rec) \in Seq(ItemsOf(rec))
  <2> HIDE DEF places
  <2> QED BY <1>2
<1> DEFINE items == Items(rec)
           shown == {p \in DOMAIN rec : FoldersOf(rec, p) \subseteq open}
<1>4. RowsShown(rec, open) = Inserted(items, shown)
  BY DEF RowsShown
<1>5. items \in Seq(ItemsOf(rec))
  BY <1>3
<1> HIDE DEF items, shown
<1>6. Inserted(items, shown) \in Seq({items[i] : i \in 1 .. Len(items)} \cap shown)
  BY <1>5, InsertedRows
<1>7. {items[i] : i \in 1 .. Len(items)} \cap shown \subseteq ItemsOf(rec)
  BY <1>5
<1> QED BY <1>4, <1>6, <1>7

\* The codes marked can be in use: they have data, and of a folder with one
\* code in use there is one at most.
IsChoice(rec, p) == p \in DOMAIN rec /\ ~IsFolder(rec, p) /\ rec[p].data
Valid(rec, sel) ==
    /\ \A p \in sel : IsChoice(rec, p)
    /\ \A h \in DOMAIN rec : rec[h].kind = "one" =>
          \A p, q \in sel \cap Members(rec, h) : p = q

\* What deselectFolder goes through are codes with data behind the folder.
LEMMA MembersAreChoices ==
    ASSUME NEW rec \in Seq(Places), NEW h, NEW p \in Members(rec, h)
    PROVE  IsChoice(rec, p) /\ h \in FoldersOf(rec, p) /\ h \in DOMAIN rec /\ p \in Nat
<1>1. p \in DOMAIN rec /\ h \in FoldersOf(rec, p) /\ rec[p].data
  BY DEF Members
<1>2. h \in 1 .. p - 1 /\ ~IsFolder(rec, p)
  BY <1>1 DEF FoldersOf
<1>3. DOMAIN rec = 1 .. Len(rec) /\ Len(rec) \in Nat
  OBVIOUS
<1>4. h \in DOMAIN rec /\ p \in Nat
  BY <1>1, <1>2, <1>3
<1> QED BY <1>1, <1>2, <1>4 DEF IsChoice

\* Of a folder with one code in use the parser takes one.
LEMMA ParsedValid ==
    ASSUME NEW rec \in Seq(Places), NEW bytes
    PROVE  Valid(rec, Parsed(rec, bytes))
<1> DEFINE sel == Parsed(rec, bytes)
<1>1. ASSUME NEW p \in sel PROVE IsChoice(rec, p)
  BY <1>1 DEF Parsed, IsChoice
<1>2. ASSUME NEW h \in DOMAIN rec, rec[h].kind = "one",
             NEW p \in sel \cap Members(rec, h), NEW q \in sel \cap Members(rec, h)
      PROVE  p = q
  <2>1. h \in FoldersOf(rec, p) /\ h \in FoldersOf(rec, q) /\ p \in Nat /\ q \in Nat
    BY MembersAreChoices
  <2>2. bytes[p] # 0 /\ bytes[q] # 0
    BY DEF Parsed
  <2>3. ~(q < p) /\ ~(p < q)
    BY <1>2, <2>1, <2>2 DEF Parsed
  <2> QED BY <2>1, <2>3
<1> QED BY <1>1, <1>2 DEF Valid

\* What onGenerate writes is read back as it was marked.
LEMMA WrittenParsed ==
    ASSUME NEW rec \in Seq(Places), NEW bytes, NEW sel, Valid(rec, sel)
    PROVE  Parsed(rec, Written(rec, bytes, sel, Len(rec))) = sel
<1> DEFINE new == Written(rec, bytes, sel, Len(rec))
<1>1. ASSUME NEW p, IsChoice(rec, p) PROVE new[p] = IF p \in sel THEN 1 ELSE 0
  <2>1. p \in DOMAIN rec /\ ~IsFolder(rec, p) /\ p \in ItemsOf(rec)
    BY <1>1 DEF IsChoice, ItemsOf
  <2>2. p \in 1 .. Len(rec) /\ Len(rec) \in Nat
    BY <2>1
  <2>3. ~(p > Len(rec))
    BY <2>2
  <2> QED BY <2>1, <2>3 DEF Written
<1> HIDE DEF new
<1>2. ASSUME NEW p \in Parsed(rec, new) PROVE p \in sel
  <2>1. IsChoice(rec, p) /\ new[p] # 0
    BY DEF Parsed, IsChoice
  <2> QED BY <1>1, <2>1
<1>3. ASSUME NEW p \in sel PROVE p \in Parsed(rec, new)
  <2>1. IsChoice(rec, p) /\ new[p] # 0
    BY <1>1 DEF Valid
  <2>2. ASSUME NEW h \in FoldersOf(rec, p), rec[h].kind = "one", NEW q \in Members(rec, h), q < p
        PROVE  new[q] = 0
    <3>1. IsChoice(rec, q) /\ h \in DOMAIN rec /\ q \in Nat
      BY MembersAreChoices
    <3>2. p \in Members(rec, h) /\ p \in 1 .. Len(rec)
      BY <2>1 DEF Members, IsChoice
    <3>3. q \in sel => q = p
      BY <2>2, <3>1, <3>2 DEF Valid
    <3>4. p # q
      BY <2>2, <3>1, <3>2
    <3> QED BY <1>1, <3>1, <3>3, <3>4
  <2> QED BY <2>1, <2>2 DEF Parsed, IsChoice
<1> QED BY <1>2, <1>3 DEF new

\* A on a code leaves marks that can be in use.
LEMMA ToggledValid ==
    ASSUME NEW rec \in Seq(Places), NEW sel, Valid(rec, sel), NEW p, IsChoice(rec, p)
    PROVE  Valid(rec, Toggled(rec, sel, p))
<1> DEFINE new == Toggled(rec, sel, p)
<1>1. \A q \in new : q \in sel \/ q = p
  BY DEF Toggled
<1>2. ASSUME NEW h \in DOMAIN rec, rec[h].kind = "one", p \in Members(rec, h),
             NEW q \in new, q \in Members(rec, h)
      PROVE  q = p
  <2>1. h \in FoldersOf(rec, p)
    BY <1>2, MembersAreChoices
  <2>2. InOneFolder(rec, p)
    BY <1>2, <2>1 DEF InOneFolder
  <2> QED BY <1>2, <2>1, <2>2 DEF Toggled
<1> HIDE DEF new
<1>3. \A q \in new : IsChoice(rec, q)
  BY <1>1 DEF Valid
<1>4. ASSUME NEW h \in DOMAIN rec, rec[h].kind = "one",
             NEW q \in new \cap Members(rec, h), NEW r \in new \cap Members(rec, h)
      PROVE  q = r
  <2>1. CASE p \in Members(rec, h)
    BY <1>2, <1>4, <2>1
  <2>2. CASE p \notin Members(rec, h)
    <3>1. q \in sel /\ r \in sel
      BY <1>1, <2>2
    <3> QED BY <1>4, <3>1 DEF Valid
  <2> QED BY <2>1, <2>2
<1> QED BY <1>3, <1>4 DEF Valid, new

-----------------------------------------------------------------------------
(* The cheat window's list *)

\* A bounded set of numbers that is not empty has a largest one.
LEMMA Largest ==
    ASSUME NEW S, S \subseteq Nat, S # {}, NEW b \in Nat, \A i \in S : i <= b
    PROVE  \E i \in S : \A j \in S : i >= j
<1> DEFINE T == {b - i : i \in S}
<1>1. T \subseteq Nat /\ T # {}
  <2>1. ASSUME NEW i \in S PROVE b - i \in Nat
    <3>1. i \in Nat /\ i <= b
      OBVIOUS
    <3> QED BY <3>1
  <2> QED BY <2>1
<1>2. PICK x \in T : \A y \in T : x <= y
  <2> HIDE DEF T
  <2> QED BY <1>1, Least
<1>3. PICK i \in S : x = b - i
  BY <1>2
<1>4. \A j \in S : b - j \in T
  OBVIOUS
<1> QED BY <1>2, <1>3, <1>4

\* LEFT and RIGHT stop at a row, at the first or past the last.
LEMMA FoldersAreRows ==
    ASSUME NEW rec, NEW V, NEW rows \in Seq(V), NEW at \in Nat
    PROVE  FolderAfter(rec, rows, at) \in Int /\ FolderBefore(rec, rows, at) \in Int
<1> DEFINE after == {j \in at + 1 .. Len(rows) - 1 : IsFolder(rec, rows[j + 1])}
           before == {j \in 1 .. at - 1 : IsFolder(rec, rows[j + 1])}
<1>1. after \subseteq Nat /\ before \subseteq Nat /\ Len(rows) \in Int
  OBVIOUS
<1>2. \A j \in before : j <= at
  OBVIOUS
<1>3. FolderAfter(rec, rows, at) = IF after = {} THEN Len(rows) ELSE Min(after)
  BY DEF FolderAfter
<1>4. FolderBefore(rec, rows, at) = IF before = {} THEN 0 ELSE Max(before)
  BY DEF FolderBefore
<1> HIDE DEF after, before
<1>5. after # {} => Min(after) \in after
  <2>1. after # {} => \E i \in after : \A j \in after : i <= j
    BY <1>1, Least
  <2> QED BY <2>1 DEF Min
<1>6. before # {} => Max(before) \in before
  <2>1. before # {} => \E i \in before : \A j \in before : i >= j
    BY <1>1, <1>2, Largest
  <2> QED BY <2>1 DEF Max
<1>7. /\ after # {} => Min(after) \in Int
      /\ before # {} => Max(before) \in Int
  <2>1. \A S, i : S \subseteq Nat /\ i \in S => i \in Int
    OBVIOUS
  <2> QED BY <1>1, <1>5, <1>6, <2>1
<1>8. FolderAfter(rec, rows, at) \in Int
  <2> DEFINE least == Min(after)
  <2>1. after # {} => least \in Int
    BY <1>7
  <2>2. FolderAfter(rec, rows, at) = IF after = {} THEN Len(rows) ELSE least
    BY <1>3
  <2> HIDE DEF least
  <2> QED BY <1>1, <2>1, <2>2
<1>9. FolderBefore(rec, rows, at) \in Int
  <2> DEFINE most == Max(before)
  <2>1. before # {} => most \in Int
    BY <1>7
  <2>2. FolderBefore(rec, rows, at) = IF before = {} THEN 0 ELSE most
    BY <1>4
  <2> HIDE DEF most
  <2> QED BY <2>1, <2>2
<1> QED BY <1>8, <1>9

\* The list of the window has the rows shown, and one of them is selected.
RowSelected(l) == l \in Lists /\ (l.rows # 0 => l.selected < l.rows)

\* Scrolling selects nothing else.
LEMMA ScrolledSelects ==
    ASSUME NEW l, RowSelected(l), NEW id \in Int
    PROVE  /\ RowSelected(ScrolledTo(l, id)) /\ ScrolledTo(l, id).rows = l.rows
           /\ ScrolledTo(l, id).selected = l.selected
BY DEF RowSelected, ScrolledTo, ClampedToPage, Upper, Lower, Lists

\* selectRow selects a row, whatever it is asked for.
LEMMA PickedSelects ==
    ASSUME NEW l, RowSelected(l), NEW id \in Int
    PROVE  RowSelected(Picked(l, id)) /\ Picked(l, id).rows = l.rows
<1> DEFINE row == Upper(0, Lower(id, l.rows - 1))
           back == row - (l.selected - l.first)
           scrolled == IF row < l.first \/ row > LastVisible(l)
                       THEN ScrolledTo(l, back) ELSE l
<1>1. /\ l \in Lists /\ l.rows \in Nat /\ l.first \in Nat /\ l.selected \in Nat
  BY DEF RowSelected, Lists
<1>2. CASE l.rows = 0
  BY <1>2 DEF Picked
<1>3. CASE l.rows # 0
  <2>1. row \in Nat /\ row < l.rows
    BY <1>1, <1>3 DEF Upper, Lower
  <2>2. back \in Int
    BY <1>1, <2>1
  <2>3. Picked(l, id) = [scrolled EXCEPT !.selected = row]
    BY <1>3 DEF Picked
  <2> HIDE DEF row, back
  <2>4. RowSelected(scrolled) /\ scrolled.rows = l.rows
    BY <2>2, ScrolledSelects
  <2> HIDE DEF scrolled
  <2> QED BY <1>1, <2>1, <2>3, <2>4 DEF RowSelected, Lists
<1> QED BY <1>2, <1>3

\* A list that was filled anew selects its first row.
LEMMA FilledSelects ==
    ASSUME NEW l \in Lists, NEW n \in Nat
    PROVE  RowSelected(Filled(l, n)) /\ Filled(l, n).rows = n
<1> DEFINE new == Filled(l, n)
<1>1. /\ DOMAIN new = {"rows", "visible", "first", "selected"}
      /\ new.rows = n /\ new.visible = l.visible /\ new.first = 0 /\ new.selected = 0
      /\ new = [k \in DOMAIN new |-> new[k]]
  BY DEF Filled, Lists
<1>2. l.visible \in Nat \ {0}
  BY DEF Lists
<1> HIDE DEF new
<1>3. new = [rows |-> n, visible |-> l.visible, first |-> 0, selected |-> 0]
  BY <1>1
<1>4. new \in Lists
  BY <1>2, <1>3 DEF Lists
<1>5. n # 0 => 0 < n
  OBVIOUS
<1> QED BY <1>1, <1>4, <1>5 DEF RowSelected, new

-----------------------------------------------------------------------------
(* The cheats of games: what the file says is what was confirmed, and what *)
(* the window has marked can be in use.                                    *)

\* The window is a game's, its marks can be in use, a row of it is selected.
CheatWindow ==
    /\ HasCheats(GameOf(rom.at))
    /\ Valid(Rec, rom.cheats.sel)
    /\ RowSelected(rom.cheats.list) /\ rom.cheats.list.rows = Len(CheatRows)

CheatsInv ==
    /\ DOMAIN store.cheats = DOMAIN FirstBytes /\ DOMAIN told.used = DOMAIN FirstBytes
    /\ \A g \in DOMAIN FirstBytes : told.used[g] = Parsed(Record(g), store.cheats[g])
    /\ screen = "cheats" => CheatWindow

\* A game with cheats has a record and its bytes.
LEMMA RecordOfGame ==
    ASSUME NEW f \in DOMAIN RomFiles, HasCheats(GameOf(f))
    PROVE  GameOf(f) \in DOMAIN FirstBytes /\ Record(GameOf(f)) \in Seq(Places)
<1>1. GameOf(f) \in Games
  BY RomInfoAssumption DEF GameOf
<1>2. GameOf(f) \in DOMAIN FirstBytes
        /\ SearchCheatData(GameOf(f)).pos \in DOMAIN CheatRecords
  BY <1>1, RomInfoAssumption
<1> QED BY <1>2, CheatAssumption DEF Record

\* At the first start the bytes say what is in use.
LEMMA CheatsInitial == MenuInit => CheatsInv
<1> SUFFICES ASSUME MenuInit PROVE CheatsInv
  OBVIOUS
<1>1. screen = "off"
  BY DEF MenuInit, Init
<1>2. /\ store.cheats = FirstBytes
      /\ told.used = [g \in DOMAIN FirstBytes |-> Parsed(Record(g), FirstBytes[g])]
  BY DEF MenuInit
<1> QED BY <1>1, <1>2 DEF CheatsInv

\* Steps outside the window
LEMMA CheatsQuiet ==
    ASSUME CheatsInv, store'.cheats = store.cheats, told'.used = told.used, screen' # "cheats"
    PROVE  CheatsInv'
BY DEF CheatsInv

\* The list of the games' settings is another file.
LEMMA ListLeavesCheats ==
    ASSUME Shapes, NEW info, NEW shown, NEW next \in {"info", "list"},
           UpdateList(info, shown, next)
    PROVE  store'.cheats = store.cheats /\ told'.used = told.used /\ screen' # "cheats"
<1>1. screen' \in {"info", "list", "off"}
  BY DEF UpdateList, Off, Cut
<1>2. \E list, all : /\ store' = [store EXCEPT !.list = list]
                     /\ \/ told' = [told EXCEPT !.shown = all]
                        \/ told' = [told EXCEPT !.shown[info.game] = shown]
  BY DEF UpdateList
<1> QED BY <1>1, <1>2 DEF Shapes

\* The steps outside the cheat window, and those that leave it
LEMMA OutsideKeeps ==
    ASSUME GamesInv, CheatsInv,
           \/ Next /\ BesideMenu
           \/ DrawRows \/ EnterDir \/ CloseFileInfo \/ PressSaveType \/ TurnGame
           \/ CancelGame \/ ConfirmGame \/ SelectNothing \/ CancelCheats
           \/ \E f \in DOMAIN RomFiles : ShowFileInfo(f) \/ LaunchGame(f)
    PROVE  CheatsInv'
<1>0. Shapes
  BY DEF GamesInv
<1>1. CASE Next /\ BesideMenu
  BY <1>1, CheatsQuiet, MenuSteps DEF BesideMenu
<1>2. CASE DrawRows \/ EnterDir \/ CloseFileInfo
  BY <1>2, CheatsQuiet DEF DrawRows, EnterDir, CloseFileInfo, MayOpen, InMenu
<1>3. CASE PressSaveType \/ TurnGame \/ CancelGame
  BY <1>3, CheatsQuiet DEF PressSaveType, TurnGame, CancelGame
<1>4. CASE ConfirmGame
  <2>1. UpdateList(ApplyToCopy, AfterOk, "info")
    BY <1>4 DEF ConfirmGame
  <2> QED BY <1>0, <2>1, ListLeavesCheats, CheatsQuiet
<1>5. CASE SelectNothing
  BY <1>5, CheatsQuiet DEF SelectNothing, InMenu
<1>6. CASE CancelCheats
  BY <1>0, <1>6, CheatsQuiet DEF CancelCheats, InMenu, Shapes
<1>7. ASSUME NEW f \in DOMAIN RomFiles, ShowFileInfo(f)
      PROVE  CheatsInv'
  BY <1>7, CheatsQuiet DEF ShowFileInfo, InMenu
<1>8. ASSUME NEW f \in DOMAIN RomFiles, LaunchGame(f)
      PROVE  CheatsInv'
  <2>1. PICK info : UpdateList(info, ShownWith(info), "list")
    BY <1>8 DEF LaunchGame
  <2> QED BY <1>0, <2>1, ListLeavesCheats, CheatsQuiet
<1> QED BY <1>1, <1>2, <1>3, <1>4, <1>5, <1>6, <1>7, <1>8

\* The window opens with the codes in use marked.
LEMMA OpeningKeeps ==
    ASSUME GamesInv, CheatsInv, NEW f \in DOMAIN RomFiles, NEW from, ShowCheats(f, from)
    PROVE  CheatsInv'
<1> DEFINE rec == Record(GameOf(f))
           rows == RowsShown(rec, {})
           marked == Parsed(rec, store.cheats[GameOf(f)])
           cheats == [NoCheats EXCEPT !.list = Filled(@, Len(rows)), !.from = from,
                                      !.sel = marked]
<1>1. /\ screen' = "cheats" /\ store' = store /\ told' = told /\ HasCheats(GameOf(f))
      /\ rom' = [rom EXCEPT !.at = f, !.cheats = cheats]
  BY DEF ShowCheats, InMenu
<1>2. rec \in Seq(Places)
  BY <1>1, RecordOfGame
<1> HIDE DEF rec
<1>3. Len(rows) \in Nat
  BY <1>2, RowsAreItems
<1>4. Valid(rec, marked)
  BY <1>2, ParsedValid
<1> HIDE DEF rows, marked
<1>5. /\ cheats.list = Filled(NoCheats.list, Len(rows)) /\ cheats.open = {}
      /\ cheats.sel = marked
  BY DEF NoCheats
<1>6. NoCheats.list \in Lists
  BY RomInfoAssumption DEF NoCheats, Lists
<1>7. RowSelected(cheats.list) /\ cheats.list.rows = Len(rows)
  BY <1>3, <1>5, <1>6, FilledSelects
<1> HIDE DEF cheats
<1>8. rom'.at = f /\ rom'.cheats = cheats
  BY <1>1 DEF GamesInv, Shapes
<1>9. Rec' = rec /\ CheatRows' = rows
  BY <1>5, <1>8 DEF Rec, CheatRows, rec, rows
<1>10. CheatWindow'
  BY <1>1, <1>4, <1>5, <1>7, <1>8, <1>9 DEF CheatWindow
<1> QED BY <1>1, <1>10 DEF CheatsInv

\* A step in the window changes the marks, the folders or the list.
LEMMA InsideKeeps ==
    ASSUME GamesInv, CheatsInv, NEW cheats, InCheats(cheats),
           Valid(Rec, cheats.sel), RowSelected(cheats.list),
           cheats.list.rows = Len(RowsShown(Rec, cheats.open))
    PROVE  CheatsInv'
<1>1. /\ screen = "cheats" /\ screen' = screen /\ store' = store /\ told' = told
      /\ rom' = [rom EXCEPT !.cheats = cheats]
  BY DEF InCheats, InMenu
<1>2. rom'.at = rom.at /\ rom'.cheats = cheats
  BY <1>1 DEF GamesInv, Shapes
<1>3. Rec' = Rec /\ CheatRows' = RowsShown(Rec, cheats.open)
  BY <1>2 DEF Rec, CheatRows
<1>4. CheatWindow'
  BY <1>1, <1>2, <1>3 DEF CheatWindow, CheatsInv
<1> QED BY <1>1, <1>4 DEF CheatsInv

\* The window's record, rows and the row selected
LEMMA InTheWindow ==
    ASSUME GamesInv, CheatsInv, screen = "cheats"
    PROVE  /\ CheatWindow /\ GameOf(rom.at) \in DOMAIN FirstBytes
           /\ Rec \in Seq(Places) /\ CheatRows \in Seq(ItemsOf(Rec))
           /\ DOMAIN rom.cheats = {"list", "open", "sel", "from"}
           /\ CheatRows # <<>> => CheatAt \in ItemsOf(Rec)
<1>1. CheatWindow /\ rom.at \in DOMAIN RomFiles
        /\ DOMAIN rom.cheats = {"list", "open", "sel", "from"}
  BY DEF CheatsInv, GamesInv, Shapes
<1>2. GameOf(rom.at) \in DOMAIN FirstBytes /\ Rec \in Seq(Places)
  BY <1>1, RecordOfGame DEF CheatWindow, Rec
<1>3. CheatRows \in Seq(ItemsOf(Rec))
  BY <1>2, RowsAreItems DEF CheatRows
<1>4. ASSUME CheatRows # <<>> PROVE CheatAt \in ItemsOf(Rec)
  <2>1. Len(CheatRows) # 0 /\ Len(CheatRows) \in Nat
    BY <1>3, <1>4
  <2>2. rom.cheats.list.selected \in Nat /\ rom.cheats.list.selected < Len(CheatRows)
    BY <1>1, <2>1 DEF CheatWindow, RowSelected, Lists
  <2>3. rom.cheats.list.selected + 1 \in 1 .. Len(CheatRows)
    BY <2>1, <2>2
  <2> QED BY <1>3, <2>3 DEF CheatAt
<1> QED BY <1>1, <1>2, <1>3, <1>4

\* Another row is selected.
LEMMA MovingKeeps ==
    ASSUME GamesInv, CheatsInv, NEW row \in Int, PickCheat(row)
    PROVE  CheatsInv'
<1> DEFINE cheats == [rom.cheats EXCEPT !.list = Picked(@, row)]
<1>1. screen = "cheats" /\ InCheats(cheats)
  BY DEF PickCheat, InCheats
<1>2. CheatWindow /\ DOMAIN rom.cheats = {"list", "open", "sel", "from"}
  BY <1>1, InTheWindow
<1>3. /\ cheats.list = Picked(rom.cheats.list, row)
      /\ cheats.open = rom.cheats.open /\ cheats.sel = rom.cheats.sel
  BY <1>2
<1> HIDE DEF cheats
<1>4. RowSelected(cheats.list) /\ cheats.list.rows = Len(RowsShown(Rec, cheats.open))
  BY <1>2, <1>3, PickedSelects DEF CheatWindow, CheatRows
<1> QED BY <1>1, <1>2, <1>3, <1>4, InsideKeeps DEF CheatWindow

\* The keys that move: UP, DOWN, L, R, LEFT and RIGHT
LEMMA MovesKeep ==
    ASSUME GamesInv, CheatsInv, MoveInCheats \/ LeftOfFirst
    PROVE  CheatsInv'
<1> DEFINE at == rom.cheats.list.selected
<1>1. screen = "cheats"
  BY DEF MoveInCheats, LeftOfFirst, PickCheat, InCheats
<1>2. at \in Nat /\ CheatRows \in Seq(ItemsOf(Rec))
  BY <1>1, InTheWindow DEF CheatWindow, RowSelected, Lists
<1>3. /\ at - 1 \in Int /\ at + 1 \in Int /\ 0 \in Int
      /\ FolderAfter(Rec, CheatRows, at) \in Int /\ FolderBefore(Rec, CheatRows, at) \in Int
  <2>1. at - 1 \in Int /\ at + 1 \in Int /\ 0 \in Int
    BY <1>2
  <2> HIDE DEF at
  <2> QED BY <1>2, <2>1, FoldersAreRows
<1>4. CASE MoveInCheats
  BY <1>3, <1>4, MovingKeeps DEF MoveInCheats
<1>5. CASE LeftOfFirst
  <2>1. CASE PickCheat(0)
    BY <1>3, <2>1, MovingKeeps
  <2>2. CASE screen' = "lost" /\ InMenu
    BY <2>2, CheatsQuiet DEF InMenu
  <2> QED BY <1>5, <2>1, <2>2 DEF LeftOfFirst
<1> QED BY <1>4, <1>5

\* Other codes are marked that can be in use.
LEMMA MarkingKeeps ==
    ASSUME GamesInv, CheatsInv, NEW sel, Valid(Rec, sel),
           InCheats([rom.cheats EXCEPT !.sel = sel])
    PROVE  CheatsInv'
<1> DEFINE cheats == [rom.cheats EXCEPT !.sel = sel]
<1>1. screen = "cheats" /\ InCheats(cheats)
  BY DEF InCheats
<1>2. CheatWindow /\ DOMAIN rom.cheats = {"list", "open", "sel", "from"}
  BY <1>1, InTheWindow
<1>3. /\ cheats.list = rom.cheats.list /\ cheats.open = rom.cheats.open /\ cheats.sel = sel
  BY <1>2
<1> HIDE DEF cheats
<1> QED BY <1>1, <1>2, <1>3, InsideKeeps DEF CheatWindow, CheatRows

\* A on a code marks it or takes its mark, on a folder opens or closes it.
LEMMA SelectKeeps ==
    ASSUME GamesInv, CheatsInv, SelectCheat
    PROVE  CheatsInv'
<1> DEFINE c == rom.cheats
<1>1. screen = "cheats" /\ CheatRows # <<>>
  BY DEF SelectCheat
<1>2. /\ CheatWindow /\ Rec \in Seq(Places) /\ CheatAt \in ItemsOf(Rec)
      /\ DOMAIN rom.cheats = {"list", "open", "sel", "from"}
  BY <1>1, InTheWindow
<1>3. CASE ~IsFolder(Rec, CheatAt)
  <2>1. InCheats([c EXCEPT !.sel = Toggled(Rec, c.sel, CheatAt)])
    BY <1>3 DEF SelectCheat
  <2>2. IsChoice(Rec, CheatAt)
    BY <1>2, <1>3 DEF ItemsOf, IsChoice
  <2>3. Valid(Rec, Toggled(Rec, c.sel, CheatAt))
    BY <1>2, <2>2, ToggledValid DEF CheatWindow
  <2> QED BY <2>1, <2>3, MarkingKeeps
<1>4. CASE IsFolder(Rec, CheatAt)
  <2> DEFINE open == IF CheatAt \in c.open THEN c.open \ {CheatAt} ELSE c.open \cup {CheatAt}
             rows == RowsShown(Rec, open)
             filled == [Filled(c.list, Len(rows)) EXCEPT !.first = c.list.first]
             cheats == [c EXCEPT !.open = open, !.list = Picked(filled, c.list.selected)]
  <2>1. InCheats(cheats)
    BY <1>4 DEF SelectCheat
  <2>2. Len(rows) \in Nat
    BY <1>2, RowsAreItems
  <2>3. c.list \in Lists /\ c.list.first \in Nat /\ c.list.selected \in Nat
    BY <1>2 DEF CheatWindow, RowSelected, Lists
  <2> HIDE DEF open, rows
  <2>4. RowSelected(filled) /\ filled.rows = Len(rows)
    <3>1. RowSelected(Filled(c.list, Len(rows))) /\ Filled(c.list, Len(rows)).rows = Len(rows)
      BY <2>2, <2>3, FilledSelects
    <3> QED BY <2>3, <3>1 DEF RowSelected, Lists
  <2> HIDE DEF filled
  <2>8. c.list.selected \in Int
    BY <2>3
  <2>5. RowSelected(Picked(filled, c.list.selected))
          /\ Picked(filled, c.list.selected).rows = Len(rows)
    BY <2>4, <2>8, PickedSelects
  <2>6. /\ cheats.list = Picked(filled, c.list.selected) /\ cheats.open = open
        /\ cheats.sel = c.sel
    BY <1>2
  <2> HIDE DEF cheats
  <2>7. cheats.list.rows = Len(RowsShown(Rec, cheats.open))
    BY <2>5, <2>6 DEF rows
  <2> QED BY <1>2, <2>1, <2>5, <2>6, <2>7, InsideKeeps DEF CheatWindow
<1> QED BY <1>3, <1>4

\* OK: every code is written, or those up to where there was power.
LEMMA GenerateKeeps ==
    ASSUME GamesInv, CheatsInv, GenerateCheats
    PROVE  CheatsInv'
<1> DEFINE g == GameOf(rom.at)
           bytes(n) == Written(Rec, store.cheats[g], rom.cheats.sel, n)
<1>1. screen = "cheats" /\ screen' # "cheats"
  BY DEF GenerateCheats, GamesInv, Shapes, Cut, Off
<1>2. CheatWindow /\ g \in DOMAIN FirstBytes /\ Rec \in Seq(Places) /\ Rec = Record(g)
  BY <1>1, InTheWindow DEF Rec
<1>3. ASSUME NEW new, NEW marked, marked = Parsed(Record(g), new),
             store' = [store EXCEPT !.cheats[g] = new], told' = [told EXCEPT !.used[g] = marked]
      PROVE  CheatsInv'
  <2>1. /\ store'.cheats = [store.cheats EXCEPT ![g] = new]
        /\ told'.used = [told.used EXCEPT ![g] = marked]
    BY <1>3 DEF GamesInv, Shapes
  <2> QED BY <1>1, <1>2, <1>3, <2>1 DEF CheatsInv
<1>4. Parsed(Record(g), bytes(Len(Rec))) = rom.cheats.sel
  BY <1>2, WrittenParsed DEF CheatWindow
<1> QED BY <1>2, <1>3, <1>4 DEF GenerateCheats

\* Every step keeps the cheats.
LEMMA CheatsStep ==
    ASSUME GamesInv, CheatsInv, [MenuNext]_menuVars
    PROVE  CheatsInv'
<1>1. CASE \/ Next /\ BesideMenu
           \/ DrawRows \/ EnterDir \/ CloseFileInfo \/ PressSaveType \/ TurnGame
           \/ CancelGame \/ ConfirmGame \/ SelectNothing \/ CancelCheats
           \/ \E f \in DOMAIN RomFiles : ShowFileInfo(f) \/ LaunchGame(f)
  BY <1>1, OutsideKeeps
<1>2. CASE PressCheats
  <2>1. rom.at \in DOMAIN RomFiles
    BY DEF GamesInv, Shapes
  <2> QED BY <1>2, <2>1, OpeningKeeps DEF PressCheats
<1>3. CASE MoveInCheats \/ LeftOfFirst
  BY <1>3, MovesKeep
<1>4. CASE SelectCheat
  BY <1>4, SelectKeeps
<1>5. CASE DeselectAll
  <2>1. Valid(Rec, {})
    BY DEF Valid
  <2> QED BY <1>5, <2>1, MarkingKeeps DEF DeselectAll
<1>6. CASE GenerateCheats
  BY <1>6, GenerateKeeps
<1>7. CASE UNCHANGED menuVars
  <2>1. rom' = rom /\ store' = store /\ told' = told /\ screen' = screen
    BY <1>7 DEF menuVars, vars
  <2> QED BY <2>1 DEF CheatsInv, CheatWindow, Rec, CheatRows
<1> QED BY <1>1, <1>2, <1>3, <1>4, <1>5, <1>6, <1>7 DEF MenuNext

\* The codes marked when the cheats of a game were confirmed are the codes
\* its record has in use, for every record of folders and codes: a byte lost,
\* or written at another code's place, would be seen.
THEOREM RomInfoCheatsKept == MenuSpec => []CheatsKept
<1>1. CheatsInv => CheatsKept
  BY DEF CheatsInv, CheatsKept
<1>2. GamesInv /\ FreshInv /\ CheatsInv /\ [MenuNext]_menuVars
          => (GamesInv /\ FreshInv /\ CheatsInv)'
  BY GamesStep, CheatsStep
<1> QED BY <1>1, <1>2, GamesInitial, CheatsInitial, PTL DEF MenuSpec

-----------------------------------------------------------------------------
(* The windows of the menu: the focus is on the screen, and so is the      *)
(* selected row of a list window.                                          *)

\* The window has a tab, and shows the row that is focused.
WindowOK(tabs, w) ==
    /\ DOMAIN w = {"sel", "tab", "top", "focus"}
    /\ w.tab \in DOMAIN tabs
    /\ DOMAIN w.top = DOMAIN tabs /\ \A t \in DOMAIN tabs : w.top[t] \in Nat \ {0}
    /\ FocusShown(tabs, w)

\* Every tab has a row.
TabsOK(tabs) == \A t \in DOMAIN tabs : Len(tabs[t]) \in Nat \ {0}

\* The list has its rows, and shows the one that is selected.
ListOK(l, n) == l \in Lists /\ SelectedIsShown(l) /\ l.rows = n /\ l.visible = Shown

\* Which windows are open with which, and what they show
ShownInv ==
    /\ DOMAIN gs = Followed
    /\ screen \in {"settings", "confirm"} => WindowOK(Tabs, win)
    /\ screen \in {"language", "restartLanguage"} => win = NoWin \/ WindowOK(Tabs, win)
    /\ screen \notin {"settings", "confirm", "language", "restartLanguage", "game"} => win = NoWin
    /\ Choosing => DOMAIN box = {"list", "mark", "open"} /\ ListOK(box.list, Len(BoxRows))

\* The names of the loader tab's rows
LoaderNames ==
    {"pico", "nightly", "dsonly", "boostcpu", "cardReadDma", "languageOverride", "phatCol",
     "dsiWareUnlaunch", "hbstrap"}

\* The tabs of the settings window have rows, on any console.
LEMMA TabsHaveRows == TabsOK(Tabs) /\ 1 \in DOMAIN Tabs
<1>1. Len(LoaderRows) \in Nat \ {0}
  <2> DEFINE S == LoaderNames
             a == IF console.flashcart THEN <<"pico">> ELSE <<>>
             b == <<"nightly", "dsonly", "boostcpu", "cardReadDma", "languageOverride">>
             c == IF console.dsi THEN <<"phatCol", "dsiWareUnlaunch">> ELSE <<>>
             d == <<"hbstrap">>
  <2>1. a \in Seq(S) /\ b \in Seq(S) /\ c \in Seq(S) /\ d \in Seq(S) /\ Len(d) = 1
    <3>1. <<>> \in Seq(S) /\ <<"pico">> \in Seq(S) /\ <<"phatCol", "dsiWareUnlaunch">> \in Seq(S)
      BY DEF LoaderNames
    <3>2. b \in Seq(S)
      BY DEF LoaderNames
    <3>3. d \in Seq(S) /\ Len(d) = 1
      BY DEF LoaderNames
    <3> QED BY <3>1, <3>2, <3>3
  <2>2. LoaderRows = a \o b \o c \o d
    BY DEF LoaderRows
  <2> HIDE DEF a, b, c, d
  <2>3. a \o b \in Seq(S)
    BY <2>1
  <2>4. (a \o b) \o c \in Seq(S)
    BY <2>1, <2>3
  <2> DEFINE abc == (a \o b) \o c
  <2>5. abc \in Seq(S)
    BY <2>4
  <2> HIDE DEF abc
  <2>6. Len(abc) \in Nat /\ Len(abc \o d) = Len(abc) + Len(d)
    <3>1. d \in Seq(S)
      BY <2>1
    <3> HIDE DEF S
    <3> QED BY <2>5, <3>1
  <2>7. LoaderRows = abc \o d
    BY <2>2 DEF abc
  <2>8. Len(d) = 1
    BY <2>1
  <2> QED BY <2>6, <2>7, <2>8
<1> DEFINE loader == LoaderRows
<1>2. Tabs = <<<<"langDirectory", "resethotkey", "slot2mode">>,
      <<"viewMode", "scrollSpeed", "icon", "Animation", "Show12hrClock", "showCovers",
        "playThemeMusic">>,
      <<"fileListType", "showHiddenFiles", "saveext", "savedir", "fileSortMode">>,
      loader,
      <<"ignorecrc16", "cheats", "saveSlotOverride", "autorunWithLastRom",
        "overridePluginDefaults">>>>
  BY DEF Tabs
<1>3. Len(loader) \in Nat \ {0}
  BY <1>1
<1> HIDE DEF loader
<1>4. DOMAIN Tabs = {1, 2, 3, 4, 5}
  <2>1. DOMAIN Tabs = 1 .. 5
    BY <1>2
  <2> QED BY <2>1
<1>5. Len(Tabs[1]) = 3 /\ Len(Tabs[2]) = 7 /\ Len(Tabs[3]) = 5 /\ Tabs[4] = loader /\ Len(Tabs[5]) = 5
  BY <1>2
<1>6. \A t \in {1, 2, 3, 4, 5} : Len(Tabs[t]) \in Nat \ {0}
  <2> DEFINE rows(t) == Len(Tabs[t])
  <2>1. rows(1) = 3 /\ rows(2) = 7 /\ rows(3) = 5 /\ rows(4) = Len(loader) /\ rows(5) = 5
    BY <1>5
  <2> HIDE DEF rows
  <2>2. \A t \in {1, 2, 3, 4, 5} : rows(t) \in Nat \ {0}
    BY <1>3, <2>1
  <2> QED BY <2>2 DEF rows
<1> QED BY <1>4, <1>6 DEF TabsOK

\* updateTabLayout shows the first row it chose.
LEMMA TabShown ==
    ASSUME NEW tabs, TabsOK(tabs), NEW w, DOMAIN w = {"sel", "tab", "top", "focus"},
           w.tab \in DOMAIN tabs, DOMAIN w.top = DOMAIN tabs,
           \A t \in DOMAIN tabs : w.top[t] \in Nat \ {0}
    PROVE  WindowOK(tabs, ShowTab(tabs, w))
<1> DEFINE n == Len(tabs[w.tab])
           top == TopOf(n, w.top[w.tab])
           new == ShowTab(tabs, w)
<1>1. n \in Nat \ {0} /\ w.top[w.tab] \in Int
  BY DEF TabsOK
<1>2. top \in Nat \ {0} /\ top <= n
  <2>1. PICK m, u : m = n /\ u = w.top[w.tab]
    OBVIOUS
  <2>2. top = TopOf(m, u) /\ m \in Nat \ {0} /\ u \in Nat \ {0}
    BY <1>1, <2>1
  <2> HIDE DEF top, n
  <2>3. TopOf(m, u) \in Nat \ {0} /\ TopOf(m, u) <= m
    BY <2>2 DEF TopOf, Upper, Lower, MaxVisible
  <2> QED BY <2>1, <2>2, <2>3
<1> HIDE DEF top
<1>3. new = [w EXCEPT !.top[w.tab] = top, !.focus = top]
  BY DEF ShowTab, top
<1>4. /\ DOMAIN new = {"sel", "tab", "top", "focus"} /\ new.tab = w.tab /\ new.focus = top
      /\ new.top = [w.top EXCEPT ![w.tab] = top]
  BY <1>3
<1> HIDE DEF new
<1>5. DOMAIN new.top = DOMAIN tabs /\ \A t \in DOMAIN tabs : new.top[t] \in Nat \ {0}
  BY <1>2, <1>4
<1>6. new.top[new.tab] = top
  BY <1>4
<1>7. new.focus \in Visible(tabs, new)
  <2>1. Visible(tabs, new) = top .. Lower(n, top + MaxVisible - 1)
    BY <1>4, <1>6 DEF Visible
  <2> HIDE DEF n
  <2> QED BY <1>1, <1>2, <1>4, <2>1 DEF Lower, MaxVisible
<1> QED BY <1>4, <1>5, <1>7 DEF WindowOK, FocusShown, new

\* focusItem scrolls until the row is shown.
LEMMA FocusedShown ==
    ASSUME NEW tabs, TabsOK(tabs), NEW w, WindowOK(tabs, w), NEW row \in Int,
           1 <= row, row <= Len(tabs[w.tab])
    PROVE  WindowOK(tabs, FocusItem(tabs, w, row))
<1> DEFINE n == Len(tabs[w.tab])
           top == w.top[w.tab]
           moved == IF row < top THEN row
                    ELSE IF row >= top + MaxVisible THEN row - MaxVisible + 1 ELSE top
           to == TopOf(n, moved)
           new == FocusItem(tabs, w, row)
<1>1. n \in Nat \ {0} /\ top \in Int /\ row <= n
  BY DEF TabsOK, WindowOK
<1>2. to \in Nat \ {0} /\ to <= row /\ row < to + 5
  <2> HIDE DEF n, top
  <2> QED BY <1>1 DEF TopOf, Upper, Lower, MaxVisible
<1>3. new = [w EXCEPT !.focus = row, !.top[w.tab] = to]
  BY DEF FocusItem
<1> HIDE DEF to
<1>4. /\ DOMAIN w = {"sel", "tab", "top", "focus"} /\ w.tab \in DOMAIN tabs
      /\ DOMAIN w.top = DOMAIN tabs /\ \A t \in DOMAIN tabs : w.top[t] \in Nat \ {0}
  BY DEF WindowOK
<1>5. /\ DOMAIN new = {"sel", "tab", "top", "focus"} /\ new.tab = w.tab /\ new.focus = row
      /\ new.top = [w.top EXCEPT ![w.tab] = to]
  BY <1>3, <1>4
<1> HIDE DEF new
<1>6. DOMAIN new.top = DOMAIN tabs /\ \A t \in DOMAIN tabs : new.top[t] \in Nat \ {0}
  BY <1>2, <1>4, <1>5
<1>7. new.top[new.tab] = to
  BY <1>4, <1>5
<1>8. new.focus \in Visible(tabs, new)
  <2>1. Visible(tabs, new) = to .. Lower(n, to + MaxVisible - 1)
    BY <1>5, <1>7 DEF Visible
  <2> HIDE DEF n
  <2> QED BY <1>1, <1>2, <1>5, <2>1 DEF Lower, MaxVisible
<1> QED BY <1>4, <1>5, <1>6, <1>8 DEF WindowOK, FocusShown, new

\* What is visible are rows of the tab.
LEMMA VisibleRows ==
    ASSUME NEW tabs, TabsOK(tabs), NEW w, WindowOK(tabs, w)
    PROVE  /\ Len(tabs[w.tab]) \in Nat \ {0}
           /\ Visible(tabs, w) \subseteq Nat
           /\ \A row \in Visible(tabs, w) : row <= Len(tabs[w.tab])
           /\ w.focus \in Nat /\ w.focus <= Len(tabs[w.tab])
<1> DEFINE n == Len(tabs[w.tab])
           top == w.top[w.tab]
<1>1. n \in Nat \ {0} /\ top \in Nat \ {0}
  BY DEF TabsOK, WindowOK
<1>2. Visible(tabs, w) = top .. Lower(n, top + MaxVisible - 1)
  BY DEF Visible
<1>3. w.focus = 0 \/ w.focus \in Visible(tabs, w)
  BY DEF WindowOK, FocusShown
<1> HIDE DEF n, top
<1>4. /\ Visible(tabs, w) \subseteq Nat /\ \A row \in Visible(tabs, w) : row <= n
  BY <1>1, <1>2 DEF Lower, MaxVisible
<1>5. w.focus \in Nat /\ w.focus <= n
  BY <1>1, <1>3, <1>4
<1> QED BY <1>1, <1>4, <1>5 DEF n

\* A row that is visible, or none, can take the focus where it is.
LEMMA TouchedShown ==
    ASSUME NEW tabs, NEW w, WindowOK(tabs, w), NEW row \in Visible(tabs, w) \cup {0, w.focus}
    PROVE  WindowOK(tabs, TouchRow(w, row))
<1> DEFINE new == TouchRow(w, row)
<1>1. DOMAIN w = {"sel", "tab", "top", "focus"} /\ FocusShown(tabs, w)
  BY DEF WindowOK
<1>2. /\ DOMAIN new = {"sel", "tab", "top", "focus"} /\ new.tab = w.tab /\ new.focus = row
      /\ new.top = w.top
  BY <1>1 DEF TouchRow
<1> HIDE DEF new
<1>3. Visible(tabs, new) = Visible(tabs, w)
  BY <1>2 DEF Visible
<1>4. FocusShown(tabs, new)
  BY <1>1, <1>2, <1>3 DEF FocusShown
<1> QED BY <1>2, <1>4 DEF WindowOK, new

\* Whatever moves in the window leaves the focus on the screen.
LEMMA MovedShown ==
    ASSUME NEW tabs, TabsOK(tabs), NEW w, WindowOK(tabs, w), NEW v \in Moved(tabs, w)
    PROVE  WindowOK(tabs, v)
<1> DEFINE n == Len(tabs[w.tab])
<1>1. /\ n \in Nat \ {0} /\ w.focus \in Nat /\ w.focus <= n
  BY VisibleRows
<1>2. CASE v = OnUIKeyUP(tabs, w)
  <2> DEFINE row == IF w.focus <= 1 THEN n ELSE w.focus - 1
  <2>1. row \in Int /\ 1 <= row /\ row <= n
    <3> HIDE DEF n
    <3> QED BY <1>1
  <2>2. v = FocusItem(tabs, w, row)
    BY <1>2 DEF OnUIKeyUP
  <2> HIDE DEF row
  <2> QED BY <2>1, <2>2, FocusedShown
<1>3. CASE v = OnUIKeyDOWN(tabs, w)
  <2> DEFINE row == IF w.focus = n THEN 1 ELSE w.focus + 1
  <2>1. row \in Int /\ 1 <= row /\ row <= n
    <3> HIDE DEF n
    <3> QED BY <1>1
  <2>2. v = FocusItem(tabs, w, row)
    BY <1>3 DEF OnUIKeyDOWN
  <2> HIDE DEF row
  <2> QED BY <2>1, <2>2, FocusedShown
<1>4. ASSUME NEW tab \in {w.tab - 1, w.tab + 1} \cap DOMAIN tabs, v = SwitchTab(tabs, w, tab)
      PROVE  WindowOK(tabs, v)
  <2> DEFINE x == [w EXCEPT !.tab = tab]
  <2>1. /\ DOMAIN x = {"sel", "tab", "top", "focus"} /\ x.tab = tab /\ x.top = w.top
        /\ DOMAIN w.top = DOMAIN tabs /\ \A t \in DOMAIN tabs : w.top[t] \in Nat \ {0}
    BY DEF WindowOK
  <2>2. v = ShowTab(tabs, x)
    BY <1>4 DEF SwitchTab
  <2> HIDE DEF x
  <2> QED BY <2>1, <2>2, TabShown
<1>5. ASSUME NEW row \in Visible(tabs, w), v = TouchRow(w, row) PROVE WindowOK(tabs, v)
  BY <1>5, TouchedShown
<1> QED BY <1>2, <1>3, <1>4, <1>5 DEF Moved

\* selectRow shows the row it selects, if the one before was shown.
LEMMA PickedShown ==
    ASSUME NEW l \in Lists, SelectedIsShown(l), NEW id \in Int
    PROVE  /\ Picked(l, id) \in Lists /\ SelectedIsShown(Picked(l, id))
           /\ Picked(l, id).rows = l.rows /\ Picked(l, id).visible = l.visible
           /\ l.rows # 0 => Picked(l, id).selected = Upper(0, Lower(id, l.rows - 1))
<1>1. /\ l.rows \in Nat /\ l.visible \in Nat \ {0} /\ l.first \in Nat /\ l.selected \in Nat
      /\ l = [rows |-> l.rows, visible |-> l.visible, first |-> l.first, selected |-> l.selected]
  BY DEF Lists
<1>2. CASE l.rows = 0
  <2>1. Picked(l, id) = l
    BY <1>2 DEF Picked
  <2> QED BY <1>2, <2>1
<1>3. CASE l.rows # 0
  <2> DEFINE row == Upper(0, Lower(id, l.rows - 1))
             hidden == row < l.first \/ row > LastVisible(l)
             back == row - (l.selected - l.first)
             to == IF hidden THEN ClampedToPage(l, back) ELSE l.first
             new == Picked(l, id)
  <2>1. row \in Nat /\ row < l.rows
    BY <1>1, <1>3 DEF Upper, Lower
  <2>2. l.selected < l.rows /\ l.first <= l.selected /\ l.selected < l.first + l.visible
    BY <1>3 DEF SelectedIsShown
  <2>3. new = [(IF hidden THEN ScrolledTo(l, back) ELSE l) EXCEPT !.selected = row]
    BY <1>3 DEF Picked
  <2>4. to \in Nat /\ to <= row /\ row < to + l.visible
    <3> HIDE DEF row
    <3> QED BY <1>1, <2>1, <2>2 DEF LastVisible, ClampedToPage, Upper, Lower
  <2>5. (IF hidden THEN ScrolledTo(l, back) ELSE l) = [l EXCEPT !.first = to]
    <3> HIDE DEF row, back
    <3>1. CASE hidden
      BY <1>3, <3>1 DEF ScrolledTo
    <3>2. CASE ~hidden
      BY <1>1, <3>2
    <3> QED BY <3>1, <3>2
  <2> HIDE DEF row, hidden, back, to, new
  <2>6. new = [rows |-> l.rows, visible |-> l.visible, first |-> to, selected |-> row]
    <3>1. [l EXCEPT !.first = to]
            = [rows |-> l.rows, visible |-> l.visible, first |-> to, selected |-> l.selected]
      BY <1>1
    <3>2. new = [[l EXCEPT !.first = to] EXCEPT !.selected = row]
      BY <2>3, <2>5
    <3> QED BY <3>1, <3>2
  <2>7. new \in Lists /\ new.rows = l.rows /\ new.visible = l.visible /\ new.selected = row
    BY <1>1, <2>1, <2>4, <2>6 DEF Lists
  <2>8. SelectedIsShown(new)
    BY <1>1, <1>3, <2>1, <2>4, <2>6 DEF SelectedIsShown
  <2> QED BY <2>7, <2>8 DEF new, row
<1> QED BY <1>2, <1>3

\* A list that was filled anew shows its first row.
LEMMA FilledShown ==
    ASSUME NEW l \in Lists, NEW n \in Nat
    PROVE  /\ Filled(l, n) \in Lists /\ SelectedIsShown(Filled(l, n))
           /\ Filled(l, n).rows = n /\ Filled(l, n).visible = l.visible
<1>1. /\ l.visible \in Nat \ {0}
      /\ l = [rows |-> l.rows, visible |-> l.visible, first |-> l.first, selected |-> l.selected]
  BY DEF Lists
<1>2. Filled(l, n) = [rows |-> n, visible |-> l.visible, first |-> 0, selected |-> 0]
  <2>1. [l EXCEPT !.rows = n]
          = [rows |-> n, visible |-> l.visible, first |-> l.first, selected |-> l.selected]
    BY <1>1
  <2>2. Filled(l, n) = [[[l EXCEPT !.rows = n] EXCEPT !.first = 0] EXCEPT !.selected = 0]
    BY DEF Filled
  <2> QED BY <2>1, <2>2
<1>3. Filled(l, n) \in Lists
  BY <1>1, <1>2 DEF Lists
<1> QED BY <1>1, <1>2, <1>3 DEF SelectedIsShown

\* A list window that is closed
LEMMA NoListIs == NoBox.list \in Lists /\ NoBox.list.visible = Shown
BY SettingsAssumption DEF NoBox, Lists

\* What is installed is a list of names.
LEMMA NamesInserted == ASSUME NEW S PROVE Len(Inserted(NameOrder, S)) \in Nat
<1> DEFINE V == {NameOrder[i] : i \in DOMAIN NameOrder}
           W == {NameOrder[i] : i \in 1 .. Len(NameOrder)} \cap S
<1>1. NameOrder \in Seq(V)
  BY SettingsAssumption
<1> HIDE DEF V
<1>2. Inserted(NameOrder, S) \in Seq(W)
  BY <1>1, InsertedRows
<1> HIDE DEF W
<1> QED BY <1>2

\* The windows of languages and of themes have a number of rows.
LEMMA LanguagesCount == ASSUME NEW g PROVE Len(InstalledLanguages(g)) \in Nat
BY NamesInserted DEF InstalledLanguages

\* So does the window of themes, whichever folders are open.
LEMMA ThemesCount == ASSUME NEW open PROVE Len(ThemeRows(open)) \in Nat
<1> DEFINE S == {"standard", "cover"} \cup {NameOrder[i] : i \in DOMAIN NameOrder}
<1>1. ASSUME NEW T PROVE Inserted(NameOrder, T) \in Seq(S)
  <2> DEFINE V == {NameOrder[i] : i \in DOMAIN NameOrder}
             W == {NameOrder[i] : i \in 1 .. Len(NameOrder)} \cap T
  <2>0. NameOrder \in Seq(V)
    BY SettingsAssumption
  <2>1. NameOrder \in Seq(V) /\ DOMAIN NameOrder = 1 .. Len(NameOrder)
    <3> HIDE DEF V
    <3> QED BY <2>0
  <2>2. Inserted(NameOrder, T) \in Seq(W)
    BY <2>1, InsertedRows
  <2>3. W \subseteq S
    BY <2>1
  <2> HIDE DEF W, S
  <2> QED BY <2>2, <2>3
<1>2. ASSUME NEW f PROVE In(f) \in Seq(S)
  BY <1>1 DEF In, InstalledThemes
<1> DEFINE a == <<"standard">>
           b == IF "standard" \in open THEN In("standard") ELSE <<>>
           c == <<"cover">>
           d == IF "cover" \in open THEN In("cover") ELSE <<>>
<1>3. a \in Seq(S) /\ c \in Seq(S)
  OBVIOUS
<1>4. b \in Seq(S) /\ d \in Seq(S)
  <2> HIDE DEF S
  <2>1. <<>> \in Seq(S)
    OBVIOUS
  <2> QED BY <1>2, <2>1
<1>5. ThemeRows(open) = a \o b \o c \o d
  BY DEF ThemeRows
<1> HIDE DEF S, a, b, c, d
<1>6. a \o b \in Seq(S)
  BY <1>3, <1>4
<1>7. (a \o b) \o c \in Seq(S)
  BY <1>3, <1>6
<1>8. ((a \o b) \o c) \o d \in Seq(S)
  BY <1>4, <1>7
<1> QED BY <1>5, <1>8

\* Where a window looks for a row: at one of them, or at the first
LEMMA RowFound ==
    ASSUME NEW n \in Nat, NEW S, S \subseteq 1 .. n
    PROVE  /\ FirstOf(S, 1) - 1 \in Nat
           /\ n # 0 => FirstOf(S, 1) - 1 < n
           /\ n = 0 => FirstOf(S, 1) - 1 = 0
<1>1. CASE S = {}
  BY <1>1 DEF FirstOf
<1>2. CASE S # {}
  <2>1. S \subseteq Nat
    OBVIOUS
  <2>2. \E x \in S : \A y \in S : x <= y
    BY <1>2, <2>1, Least
  <2> DEFINE m == FirstOf(S, 1)
  <2>3. m \in S
    BY <1>2, <2>2 DEF FirstOf
  <2>4. m \in 1 .. n
    BY <2>3
  <2> HIDE DEF m
  <2>5. m - 1 \in Nat /\ m - 1 < n
    BY <2>4
  <2> QED BY <2>5 DEF m
<1> QED BY <1>1, <1>2

\* The row of the language in use is selected while those behind it are not
\* there yet, and is shown when they are.
LEMMA LanguageBoxShown ==
    ASSUME NEW g
    PROVE  /\ DOMAIN LanguageBox(g) = {"list", "mark", "open"}
           /\ ListOK(LanguageBox(g).list, Len(InstalledLanguages(g)))
<1> DEFINE rows == InstalledLanguages(g)
           n == Len(rows)
           S == {i \in 1 .. n : rows[i] \notin Folders /\ Same(rows[i], g["langDirectory"])}
           row == FirstOf(S, 1) - 1
           part == Filled(NoBox.list, row + 1)
           picked == Picked(part, row)
           all == [picked EXCEPT !.rows = n]
<1>1. n \in Nat
  BY LanguagesCount
<1>2. row = RowNamed(rows, g["langDirectory"])
  BY DEF RowNamed
<1>3. LanguageBox(g) = [list |-> all, mark |-> g["langDirectory"], open |-> {}]
  BY <1>2 DEF LanguageBox
<1>4. row \in Nat /\ (n # 0 => row < n) /\ (n = 0 => row = 0)
  <2>1. S \subseteq 1 .. n
    OBVIOUS
  <2> HIDE DEF n, S
  <2> QED BY <1>1, <2>1, RowFound
<1> HIDE DEF n, row
<1>5. /\ part \in Lists /\ SelectedIsShown(part) /\ part.rows = row + 1 /\ part.visible = Shown
  BY <1>4, NoListIs, FilledShown
<1> HIDE DEF part
<1>6. /\ picked \in Lists /\ SelectedIsShown(picked)
      /\ picked.rows = row + 1 /\ picked.visible = Shown
      /\ picked.selected = Upper(0, Lower(row, part.rows - 1))
  <2>1. row \in Int /\ part.rows # 0
    BY <1>4, <1>5
  <2> QED BY <1>5, <2>1, PickedShown
<1> HIDE DEF picked
<1>7. /\ picked.selected = row /\ picked.first \in Nat
      /\ picked.first <= row /\ row < picked.first + Shown
  <2>1. part.rows - 1 = row /\ row + 1 # 0
    BY <1>4, <1>5
  <2> QED BY <1>4, <1>6, <2>1 DEF Upper, Lower, SelectedIsShown, Lists
<1>8. /\ all \in Lists /\ all.rows = n /\ all.visible = Shown
      /\ all.first = picked.first /\ all.selected = row
  BY <1>1, <1>6, <1>7 DEF Lists
<1> HIDE DEF all
<1>9. SelectedIsShown(all)
  <2>1. CASE n = 0
    BY <1>4, <1>7, <1>8, <2>1 DEF SelectedIsShown
  <2>2. CASE n # 0
    BY <1>4, <1>7, <1>8, <2>2 DEF SelectedIsShown
  <2> QED BY <2>1, <2>2
<1> QED BY <1>3, <1>8, <1>9 DEF ListOK, n, rows

\* The rows of the themes are all there when the one in use is selected.
LEMMA ThemeBoxShown ==
    ASSUME NEW g
    PROVE  /\ DOMAIN ThemeBox(g) = {"list", "mark", "open"}
           /\ ListOK(ThemeBox(g).list, Len(ThemeRows(ThemeBox(g).open)))
<1> DEFINE open == {f \in Folders : HasIn(In(f), g["uiName"])}
           rows == ThemeRows(open)
           row == RowNamed(rows, g["uiName"])
           list == Picked(Filled(NoBox.list, Len(rows)), row)
<1>1. ThemeBox(g) = [list |-> list, mark |-> g["uiName"], open |-> open]
  BY DEF ThemeBox
<1> HIDE DEF open
<1>2. Len(rows) \in Nat
  BY ThemesCount
<1>3. row \in Int
  <2> DEFINE n == Len(rows)
             S == {i \in 1 .. n : rows[i] \notin Folders /\ Same(rows[i], g["uiName"])}
  <2>1. row = FirstOf(S, 1) - 1
    BY DEF RowNamed
  <2>2. S \subseteq 1 .. n
    OBVIOUS
  <2> HIDE DEF S, n, row
  <2>3. FirstOf(S, 1) - 1 \in Nat
    BY <1>2, <2>2, RowFound DEF n
  <2> QED BY <2>1, <2>3
<1> HIDE DEF rows, row
<1>4. ListOK(list, Len(rows))
  <2> DEFINE filled == Filled(NoBox.list, Len(rows))
  <2>1. /\ filled \in Lists /\ SelectedIsShown(filled)
        /\ filled.rows = Len(rows) /\ filled.visible = Shown
    BY <1>2, NoListIs, FilledShown
  <2> HIDE DEF filled
  <2>2. /\ Picked(filled, row) \in Lists /\ SelectedIsShown(Picked(filled, row))
        /\ Picked(filled, row).rows = filled.rows /\ Picked(filled, row).visible = filled.visible
    BY <1>3, <2>1, PickedShown
  <2> QED BY <2>1, <2>2 DEF ListOK, filled
<1> HIDE DEF list
<1> QED BY <1>1, <1>4 DEF rows

\* A folder that opens or closes stays selected.
LEMMA ReopenedShown ==
    ASSUME NEW folder, NEW open, DOMAIN box = {"list", "mark", "open"},
           box.list \in Lists, box.list.visible = Shown
    PROVE  /\ DOMAIN Reopened(folder, open) = {"list", "mark", "open"}
           /\ Reopened(folder, open).open = open
           /\ ListOK(Reopened(folder, open).list, Len(ThemeRows(open)))
<1> DEFINE rows == ThemeRows(open)
           S == {i \in 1 .. Len(rows) : rows[i] = folder}
           row == FirstOf(S, 1) - 1
           list == Picked(Filled(box.list, Len(rows)), row)
           new == Reopened(folder, open)
<1>1. new = [box EXCEPT !.open = open, !.list = list]
  BY DEF Reopened
<1>2. Len(rows) \in Nat
  BY ThemesCount
<1>3. row \in Int
  <2> DEFINE n == Len(rows)
  <2>1. S \subseteq 1 .. n
    OBVIOUS
  <2> HIDE DEF S, n
  <2>2. row \in Nat
    BY <1>2, <2>1, RowFound DEF n
  <2> HIDE DEF row
  <2> QED BY <2>2
<1> HIDE DEF rows, row
<1>4. ListOK(list, Len(rows))
  <2> DEFINE filled == Filled(box.list, Len(rows))
  <2>1. /\ filled \in Lists /\ SelectedIsShown(filled)
        /\ filled.rows = Len(rows) /\ filled.visible = Shown
    BY <1>2, FilledShown
  <2> HIDE DEF filled
  <2>2. /\ Picked(filled, row) \in Lists /\ SelectedIsShown(Picked(filled, row))
        /\ Picked(filled, row).rows = filled.rows /\ Picked(filled, row).visible = filled.visible
    BY <1>3, <2>1, PickedShown
  <2> QED BY <2>1, <2>2 DEF ListOK, filled
<1> HIDE DEF list, new
<1>5. DOMAIN new = {"list", "mark", "open"} /\ new.open = open /\ new.list = list
  BY <1>1
<1> QED BY <1>4, <1>5 DEF new, rows

\* What gs() can become has all settings, and safe mode does not touch the
\* language.
LEMMA SettingsOfAll ==
    /\ \A f : DOMAIN Loaded(f) = Followed
    /\ \A g : DOMAIN g = Followed => DOMAIN UpdateSafeMode(g) = Followed
    /\ \A g : UpdateSafeMode(g)["langDirectory"] = g["langDirectory"]
    /\ DOMAIN Apply = Followed
<1>1. "langDirectory" \in Followed /\ "langDirectory" \notin DOMAIN SafeValue
  BY SettingsAssumption DEF SafeValue
<1> QED BY <1>1 DEF Loaded, UpdateSafeMode, Apply

\* What is to be shown of the windows that are open then
LEMMA ShownThen ==
    ASSUME DOMAIN gs' = Followed, console' = console,
           screen' \in {"settings", "confirm"} => WindowOK(Tabs, win'),
           screen' \in {"language", "restartLanguage"} => win' = NoWin \/ WindowOK(Tabs, win'),
           screen' \notin {"settings", "confirm", "language", "restartLanguage", "game"}
               => win' = NoWin,
           Choosing' => DOMAIN box' = {"list", "mark", "open"},
           screen' = "language" => ListOK(box'.list, Len(InstalledLanguages(gs'))),
           screen' = "themes" => ListOK(box'.list, Len(ThemeRows(box'.open)))
    PROVE  ShownInv'
<1>1. Tabs' = Tabs
  BY DEF Tabs, LoaderRows
<1>2. WindowOK(Tabs, win)' <=> WindowOK(Tabs, win')
  BY <1>1 DEF WindowOK, FocusShown, Visible
<1>3. Choosing' => ListOK(box.list, Len(BoxRows))'
  <2>1. ASSUME screen' = "language" PROVE BoxRows' = InstalledLanguages(gs')
    BY <2>1 DEF BoxRows, InstalledLanguages
  <2>2. ASSUME screen' = "themes" PROVE BoxRows' = ThemeRows(box'.open)
    BY <2>2 DEF BoxRows, ThemeRows
  <2>3. \A n : ListOK(box.list, n)' <=> ListOK(box'.list, n)
    BY DEF ListOK, SelectedIsShown
  <2> QED BY <2>1, <2>2, <2>3 DEF Choosing, ListOK, SelectedIsShown
<1> QED BY <1>2, <1>3 DEF ShownInv

\* saveSettings, or the power off: all settings are there.
LEMMA SavedHasAll ==
    ASSUME NEW g, DOMAIN g = Followed, NEW next, NEW c, NEW n, SaveSettings(g, next, c, n)
    PROVE  /\ DOMAIN gs' = Followed
           /\ (screen' = next /\ gs' = UpdateSafeMode(g)) \/ screen' = "off"
BY SettingsOfAll DEF SaveSettings

\* The start of the menu
LEMMA StartShown ==
    ASSUME ShownInv,
           PowerOn \/ CheckInitIni \/ LoadSettings \/ EnsureValidTheme \/ PowerOff \/ EditFile
    PROVE  ShownInv'
<1>1. CASE PowerOn
  BY <1>1, SettingsOfAll, ShownThen DEF PowerOn, ShownInv, Choosing
<1>2. CASE CheckInitIni
  BY <1>2, ShownThen DEF CheckInitIni, ShownInv, Choosing
<1>3. CASE LoadSettings
  BY <1>3, SettingsOfAll, ShownThen DEF LoadSettings, Rest, ShownInv, Choosing
<1>4. CASE EnsureValidTheme
  <2>1. /\ screen = "theme" /\ console' = console /\ first' = first /\ win' = NoWin
        /\ box' = IF first THEN LanguageBox(gs) ELSE NoBox
    BY <1>4 DEF EnsureValidTheme, Rest, ShownInv
  <2>2. /\ DOMAIN gs' = Followed
        /\ screen' \in {"language", "list", "noTheme", "off"}
        /\ screen' = "language" =>
              first /\ gs'["langDirectory"] = gs["langDirectory"]
    <3> DEFINE theme == Replacements[1]
               g == [gs EXCEPT !["uiName"] = theme]
    <3>1. DOMAIN g = Followed /\ g["langDirectory"] = gs["langDirectory"]
      BY SettingsAssumption DEF ShownInv
    <3>2. \/ screen' \in {AfterStart, "noTheme"} /\ gs' = gs
          \/ SaveSettings(g, AfterStart, [Confirmed EXCEPT !["uiName"] = theme], 0)
      BY <1>4 DEF EnsureValidTheme
    <3> HIDE DEF g
    <3>3. CASE screen' \in {AfterStart, "noTheme"} /\ gs' = gs
      BY <3>3 DEF AfterStart, ShownInv
    <3>4. CASE SaveSettings(g, AfterStart, [Confirmed EXCEPT !["uiName"] = theme], 0)
      <4>1. /\ DOMAIN gs' = Followed
            /\ (screen' = AfterStart /\ gs' = UpdateSafeMode(g)) \/ screen' = "off"
        BY <3>1, <3>4, SavedHasAll
      <4> QED BY <3>1, <4>1, SettingsOfAll DEF AfterStart
    <3> QED BY <3>2, <3>3, <3>4
  <2>3. ASSUME screen' = "language"
        PROVE  /\ DOMAIN box' = {"list", "mark", "open"}
               /\ ListOK(box'.list, Len(InstalledLanguages(gs')))
    <3>1. InstalledLanguages(gs') = InstalledLanguages(gs)
      BY <2>2, <2>3 DEF InstalledLanguages
    <3>2. box' = LanguageBox(gs)
      BY <2>1, <2>2, <2>3
    <3> QED BY <3>1, <3>2, LanguageBoxShown
  <2> QED BY <2>1, <2>2, <2>3, ShownThen DEF Choosing
<1>5. CASE PowerOff
  BY <1>5, SettingsOfAll, ShownThen DEF PowerOff, Rest, Choosing
<1>6. CASE EditFile
  BY <1>6, ShownThen DEF EditFile, Rest, ShownInv, Choosing
<1> QED BY <1>1, <1>2, <1>3, <1>4, <1>5, <1>6

\* The settings window
LEMMA SettingsShown ==
    ASSUME ShownInv,
           \/ OpenSettings \/ MoveInSettings \/ TurnSetting \/ AskToSave
           \/ OpenLanguages \/ CloseSettings \/ AnswerSave
    PROVE  ShownInv'
<1>0. TabsOK(Tabs) /\ DOMAIN gs = Followed
  BY TabsHaveRows DEF ShownInv
<1>1. CASE OpenSettings
  <2> DEFINE sel == [k \in RowKeys |-> ShownAs(k, gs[k])]
             w == [sel |-> sel, tab |-> 1, top |-> [t \in DOMAIN Tabs |-> 1], focus |-> 0]
  <2>1. win' = ShowTab(Tabs, w) /\ screen' = "settings" /\ gs' = gs /\ console' = console
    BY <1>1 DEF OpenSettings, NewWindow, Rest
  <2>2. /\ DOMAIN w = {"sel", "tab", "top", "focus"} /\ w.tab \in DOMAIN Tabs
        /\ DOMAIN w.top = DOMAIN Tabs /\ \A t \in DOMAIN Tabs : w.top[t] \in Nat \ {0}
    BY TabsHaveRows
  <2> HIDE DEF w
  <2>3. WindowOK(Tabs, win')
    BY <1>0, <2>1, <2>2, TabShown
  <2> QED BY <1>0, <2>1, <2>3, ShownThen DEF Choosing
<1>2. ASSUME screen = "settings", screen' \in {"settings", "confirm"},
             UNCHANGED <<console, gs>>, WindowOK(Tabs, win')
      PROVE  ShownInv'
  BY <1>0, <1>2, ShownThen DEF Choosing
<1>3. screen = "settings" => WindowOK(Tabs, win)
  BY DEF ShownInv
<1>4. CASE MoveInSettings
  <2>1. screen = "settings" /\ screen' = "settings" /\ UNCHANGED <<console, gs>>
        /\ win' \in Moved(Tabs, win)
    BY <1>4 DEF MoveInSettings, InSettings, Rest
  <2>2. WindowOK(Tabs, win')
    BY <1>0, <1>3, <2>1, MovedShown
  <2> QED BY <1>2, <2>1, <2>2
<1>5. CASE TurnSetting
  <2> DEFINE texts == [k \in DOMAIN win.sel |-> Texts(k)]
  <2>1. screen = "settings" /\ screen' = "settings" /\ UNCHANGED <<console, gs>>
        /\ win' \in Turned(Tabs, win, texts)
    BY <1>5 DEF TurnSetting, InSettings, Rest
  <2>0. PICK row \in Visible(Tabs, win) \cup ({win.focus} \ {0}) :
           \E k, step, n : win' \in Turn(TouchRow(win, row), k, step, n)
    <3> HIDE DEF texts
    <3>1. PICK row \in Visible(Tabs, win) \cup ({win.focus} \ {0}) :
             win' \in (LET k == Tabs[win.tab][row] IN
                       IF k \notin DOMAIN win.sel THEN {}
                       ELSE Turn(TouchRow(win, row), k, 1, texts[k])
                              \cup Turn(TouchRow(win, row), k, -1, texts[k]))
      BY <2>1 DEF Turned
    <3> QED BY <3>1
  <2>2. PICK k, step, n : win' \in Turn(TouchRow(win, row), k, step, n)
    BY <2>0
  <2> DEFINE w == TouchRow(win, row)
  <2>3. WindowOK(Tabs, w)
    BY <1>3, <2>1, TouchedShown
  <2>4. win' = [w EXCEPT !.sel[k] = @ + step]
    BY <2>2 DEF Turn
  <2> HIDE DEF w
  <2>5. DOMAIN w = {"sel", "tab", "top", "focus"}
    BY <2>3 DEF WindowOK
  <2>6. /\ DOMAIN win' = DOMAIN w /\ win'.tab = w.tab /\ win'.top = w.top
        /\ win'.focus = w.focus
    BY <2>4, <2>5
  <2>7. WindowOK(Tabs, win')
    BY <2>3, <2>6 DEF WindowOK, FocusShown, Visible
  <2> QED BY <1>2, <2>1, <2>7
<1>6. CASE AskToSave
  <2>1. /\ screen = "settings" /\ screen' = "confirm" /\ UNCHANGED <<console, gs>>
        /\ \E focus \in {win.focus, 0} : win' = TouchRow(win, focus)
    BY <1>6 DEF AskToSave, Rest, TouchRow
  <2>2. WindowOK(Tabs, win')
    BY <1>3, <2>1, TouchedShown
  <2> QED BY <1>2, <2>1, <2>2
<1>7. CASE OpenLanguages
  <2>1. /\ screen = "settings" /\ screen' = "language" /\ UNCHANGED <<console, gs, win>>
        /\ box' = LanguageBox(gs)
    BY <1>7 DEF OpenLanguages, Rest
  <2>2. WindowOK(Tabs, win')
    BY <1>3, <2>1
  <2>3. ListOK(box'.list, Len(InstalledLanguages(gs'))) /\ DOMAIN box' = {"list", "mark", "open"}
    BY <2>1, LanguageBoxShown
  <2> QED BY <1>0, <2>1, <2>2, <2>3, ShownThen DEF Choosing
<1>8. CASE CloseSettings
  BY <1>0, <1>8, ShownThen DEF CloseSettings, Rest, Choosing
<1>9. CASE AnswerSave
  <2>1. CASE screen' = "settings" /\ UNCHANGED <<win, card, gs, chosen, spent>>
    <3>1. WindowOK(Tabs, win) /\ console' = console
      BY <1>9 DEF AnswerSave, Rest, ShownInv
    <3>2. WindowOK(Tabs, win')
      BY <2>1, <3>1
    <3> QED BY <1>0, <2>1, <3>1, <3>2, ShownThen DEF Choosing
  <2>2. ASSUME win' = NoWin, NEW c, SaveSettings(Apply, "list", c, 0)
        PROVE  ShownInv'
    <3>1. DOMAIN gs' = Followed /\ screen' \in {"list", "off"}
      BY <2>2, SettingsOfAll, SavedHasAll
    <3>2. console' = console
      BY <1>9 DEF AnswerSave, Rest
    <3> QED BY <2>2, <3>1, <3>2, ShownThen DEF Choosing
  <2> QED BY <1>9, <2>1, <2>2 DEF AnswerSave
<1> QED BY <1>1, <1>4, <1>5, <1>6, <1>7, <1>8, <1>9

\* The windows of languages and of themes
LEMMA TurnsShown ==
    ASSUME ShownInv, NEW b, Turns(b), DOMAIN b = {"list", "mark", "open"},
           screen = "language" => ListOK(b.list, Len(InstalledLanguages(gs))),
           screen = "themes" => ListOK(b.list, Len(ThemeRows(b.open)))
    PROVE  ShownInv'
<1>1. /\ screen' = screen /\ box' = b /\ UNCHANGED <<console, gs, win>>
      /\ screen \in {"language", "themes"}
  BY DEF Turns, Rest, Choosing
<1>2. /\ DOMAIN gs = Followed
      /\ screen = "language" => win = NoWin \/ WindowOK(Tabs, win)
      /\ screen = "themes" => win = NoWin
  BY DEF ShownInv
<1> QED BY <1>1, <1>2, ShownThen

\* The list of the window that is open
LEMMA InTheBox ==
    ASSUME ShownInv, Choosing
    PROVE  /\ DOMAIN box = {"list", "mark", "open"} /\ ListOK(box.list, Len(BoxRows))
           /\ box.list \in Lists /\ box.list.visible = Shown
           /\ screen = "language" => BoxRows = InstalledLanguages(gs)
           /\ screen = "themes" => BoxRows = ThemeRows(box.open)
BY DEF ShownInv, Choosing, ListOK, BoxRows

\* Opening, and moving in a list
LEMMA BoxShown ==
    ASSUME ShownInv, OpenThemes \/ PressRow \/ SelectRow \/ FoldRow
    PROVE  ShownInv'
<1>1. CASE OpenThemes
  <2>1. /\ screen = "list" /\ screen' = "themes" /\ UNCHANGED <<console, gs, win>>
        /\ box' = ThemeBox(gs)
    BY <1>1 DEF OpenThemes, MayChange, Rest
  <2>2. DOMAIN gs = Followed /\ win = NoWin
    BY <2>1 DEF ShownInv
  <2>3. ListOK(box'.list, Len(ThemeRows(box'.open))) /\ DOMAIN box' = {"list", "mark", "open"}
    BY <2>1, ThemeBoxShown
  <2> QED BY <2>1, <2>2, <2>3, ShownThen
<1>2. ASSUME NEW step \in {-1, 1}, Turns([box EXCEPT !.list = Picked(@, @.selected + step)])
      PROVE  ShownInv'
  <2> DEFINE l == box.list
             id == l.selected + step
             b == [box EXCEPT !.list = Picked(l, id)]
  <2>1. Choosing /\ Turns(b)
    BY <1>2 DEF Turns
  <2>2. /\ DOMAIN box = {"list", "mark", "open"} /\ ListOK(l, Len(BoxRows))
        /\ screen = "language" => BoxRows = InstalledLanguages(gs)
        /\ screen = "themes" => BoxRows = ThemeRows(box.open)
    BY <2>1, InTheBox
  <2>3. l \in Lists /\ SelectedIsShown(l) /\ l.rows = Len(BoxRows) /\ l.visible = Shown
    BY <2>2 DEF ListOK
  <2>4. id \in Int
    <3>1. l.selected \in Nat
      BY <2>3 DEF Lists
    <3> HIDE DEF l
    <3> QED BY <3>1
  <2>5. DOMAIN b = {"list", "mark", "open"} /\ b.list = Picked(l, id) /\ b.open = box.open
    BY <2>2
  <2> HIDE DEF b, id, l
  <2>6. ListOK(b.list, Len(BoxRows))
    BY <2>3, <2>4, <2>5, PickedShown DEF ListOK
  <2> QED BY <2>1, <2>2, <2>5, <2>6, TurnsShown
<1>3. ASSUME Turns([box EXCEPT !.mark = RowAt]) PROVE ShownInv'
  <2> DEFINE b == [box EXCEPT !.mark = RowAt]
  <2>1. Choosing /\ Turns(b)
    BY <1>3 DEF Turns
  <2>2. /\ DOMAIN box = {"list", "mark", "open"} /\ ListOK(box.list, Len(BoxRows))
        /\ screen = "language" => BoxRows = InstalledLanguages(gs)
        /\ screen = "themes" => BoxRows = ThemeRows(box.open)
    BY <2>1, InTheBox
  <2>3. DOMAIN b = {"list", "mark", "open"} /\ b.list = box.list /\ b.open = box.open
    BY <2>2
  <2> HIDE DEF b
  <2> QED BY <2>1, <2>2, <2>3, TurnsShown
<1>4. ASSUME NEW folder, NEW open, screen # "language", Turns(Reopened(folder, open))
      PROVE  ShownInv'
  <2> DEFINE b == Reopened(folder, open)
  <2>1. Choosing /\ Turns(b)
    BY <1>4 DEF Turns
  <2>2. DOMAIN box = {"list", "mark", "open"} /\ box.list \in Lists /\ box.list.visible = Shown
    BY <2>1, InTheBox
  <2>3. /\ DOMAIN b = {"list", "mark", "open"} /\ b.open = open
        /\ ListOK(b.list, Len(ThemeRows(open)))
    BY <2>2, ReopenedShown
  <2> HIDE DEF b
  <2> QED BY <1>4, <2>1, <2>3, TurnsShown
<1>5. CASE PressRow
  BY <1>2, <1>5 DEF PressRow
<1>6. CASE SelectRow
  BY <1>3, <1>4, <1>6 DEF SelectRow
<1>7. CASE FoldRow
  BY <1>4, <1>7 DEF FoldRow
<1> QED BY <1>1, <1>5, <1>6, <1>7

\* The list window closes, and what was below it is there.
LEMMA BoxClosed ==
    ASSUME ShownInv,
           CancelBox \/ ConfirmLanguage \/ ConfirmTheme \/ DeclineRestart \/ Restart
    PROVE  ShownInv'
<1>1. /\ DOMAIN gs = Followed
      /\ screen \in {"language", "restartLanguage"} => win = NoWin \/ WindowOK(Tabs, win)
      /\ screen \in {"themes", "restartTheme"} => win = NoWin
  BY DEF ShownInv
<1>2. screen \in {"language", "themes", "restartLanguage", "restartTheme"} /\ console' = console
  BY DEF CancelBox, ConfirmLanguage, ConfirmTheme, DeclineRestart, Restart, Rest, Choosing
<1>3. /\ Below \in {"list", "settings"}
      /\ Below = "settings" => WindowOK(Tabs, win)
      /\ Below = "list" => win = NoWin
  BY <1>1, <1>2 DEF Below
<1>4. ASSUME screen' \in {Below, "list"}, screen' = "list" => win = NoWin, UNCHANGED <<gs, win>>
      PROVE  ShownInv'
  BY <1>1, <1>2, <1>3, <1>4, ShownThen DEF Choosing
<1>5. CASE CancelBox \/ DeclineRestart
  BY <1>3, <1>4, <1>5 DEF CancelBox, DeclineRestart
<1>6. CASE ConfirmLanguage
  <2>1. screen = "language" /\ UNCHANGED <<gs, win>>
        /\ screen' \in {"restartLanguage", Below}
    BY <1>6 DEF ConfirmLanguage
  <2>2. CASE screen' = "restartLanguage"
    BY <1>1, <1>2, <2>1, <2>2, ShownThen DEF Choosing
  <2>3. CASE screen' = Below
    BY <1>3, <1>4, <2>1, <2>3
  <2> QED BY <2>1, <2>2, <2>3
<1>7. CASE ConfirmTheme
  <2>1. screen = "themes" /\ UNCHANGED <<gs, win>> /\ screen' \in {"restartTheme", "list"}
    BY <1>7 DEF ConfirmTheme
  <2>2. CASE screen' = "restartTheme"
    BY <1>1, <1>2, <2>1, <2>2, ShownThen DEF Choosing
  <2>3. CASE screen' = "list"
    BY <1>1, <1>4, <2>1, <2>3
  <2> QED BY <2>1, <2>2, <2>3
<1>8. CASE Restart
  <2> DEFINE k == IF screen = "restartTheme" THEN "uiName" ELSE "langDirectory"
             c == [Confirmed EXCEPT ![k] = box.mark]
             n == IF first THEN 0 ELSE 1
             g == [gs EXCEPT ![k] = box.mark]
  <2>1. PICK next \in {Below, "off"} :
           SaveSettings(g, next, c, n) /\ win' = IF screen' = "off" THEN NoWin ELSE win
    BY <1>8 DEF Restart
  <2>2. DOMAIN g = Followed
    BY <1>1
  <2> HIDE DEF g, c, n
  <2>3. DOMAIN gs' = Followed /\ screen' \in {Below, "off"}
    BY <2>1, <2>2, SavedHasAll
  <2> QED BY <1>2, <1>3, <2>1, <2>3, ShownThen DEF Choosing
<1> QED BY <1>5, <1>6, <1>7, <1>8

\* The windows of games leave those of the menu alone.
LEMMA GamesShown ==
    ASSUME ShownInv, GamesInv,
           \/ DrawRows \/ EnterDir \/ CloseFileInfo \/ PressSaveType \/ TurnGame
           \/ CancelGame \/ ConfirmGame
           \/ \E f \in DOMAIN RomFiles : ShowFileInfo(f) \/ LaunchGame(f)
           \/ PressCheats \/ MoveInCheats \/ LeftOfFirst \/ SelectCheat \/ SelectNothing
           \/ DeselectAll \/ CancelCheats \/ GenerateCheats
    PROVE  ShownInv'
<1>1. /\ DOMAIN gs = Followed /\ rom.cheats.from \in {"list", "info"}
      /\ screen \in {"list", "info", "cheats"} => win = NoWin
  BY DEF ShownInv, GamesInv, Shapes
<1>2. ASSUME UNCHANGED <<console, gs, win>>, screen \in {"list", "info", "cheats"},
             screen' \in {"list", "info", "cheats", "lost"}
      PROVE  ShownInv'
  BY <1>1, <1>2, ShownThen DEF Choosing
<1>3. ASSUME UNCHANGED <<console, gs>>, screen' = "game" PROVE ShownInv'
  BY <1>1, <1>3, ShownThen DEF Choosing
<1>4. ASSUME console' = console, DOMAIN gs' = Followed, win' = NoWin,
             screen' \in {"list", "info", "cheats", "off"}
      PROVE  ShownInv'
  BY <1>4, ShownThen DEF Choosing
<1>5. ASSUME NEW info, NEW shown, NEW next \in {"list", "info"}, UpdateList(info, shown, next)
      PROVE  DOMAIN gs' = Followed /\ screen' \in {"list", "info", "off"}
  BY <1>1, <1>5, SettingsOfAll DEF UpdateList, Off, Cut
<1>6. CASE DrawRows \/ EnterDir \/ CloseFileInfo
  BY <1>2, <1>6 DEF DrawRows, EnterDir, CloseFileInfo, MayOpen, InMenu, Menu
<1>7. CASE PressSaveType \/ TurnGame
  BY <1>3, <1>7 DEF PressSaveType, TurnGame, Menu
<1>8. CASE CancelGame
  BY <1>1, <1>4, <1>8 DEF CancelGame, Menu
<1>9. CASE ConfirmGame
  BY <1>4, <1>5, <1>9 DEF ConfirmGame, Menu
<1>10. ASSUME NEW f \in DOMAIN RomFiles, ShowFileInfo(f) PROVE ShownInv'
  BY <1>2, <1>10 DEF ShowFileInfo, MayOpen, InMenu, Menu
<1>11. ASSUME NEW f \in DOMAIN RomFiles, LaunchGame(f) PROVE ShownInv'
  <2>1. screen = "list" /\ win' = win /\ console' = console
    BY <1>11 DEF LaunchGame, MayOpen, Menu
  <2>2. \E info, shown : UpdateList(info, shown, "list")
    BY <1>11 DEF LaunchGame
  <2> QED BY <1>1, <1>4, <1>5, <2>1, <2>2
<1>12. CASE PressCheats
  BY <1>2, <1>12 DEF PressCheats, ShowCheats, MayOpen, InMenu, Menu
<1>13. CASE MoveInCheats \/ LeftOfFirst \/ SelectCheat \/ SelectNothing \/ DeselectAll
  <2>1. /\ screen = "cheats" /\ screen' \in {"cheats", "lost"}
        /\ UNCHANGED <<console, gs, win>>
    BY <1>13 DEF MoveInCheats, LeftOfFirst, SelectCheat, SelectNothing, DeselectAll,
                 PickCheat, InCheats, InMenu, Menu
  <2> QED BY <1>2, <2>1
<1>14. CASE CancelCheats
  BY <1>1, <1>2, <1>14 DEF CancelCheats, InMenu, Menu
<1>15. CASE GenerateCheats
  <2>1. screen = "cheats" /\ console' = console /\ win' = win
    BY <1>15 DEF GenerateCheats, Menu
  <2>2. DOMAIN gs' = Followed /\ screen' \in {"list", "info", "off"}
    BY <1>1, <1>15, SettingsOfAll DEF GenerateCheats, Cut, Off
  <2> QED BY <1>1, <1>4, <2>1, <2>2
<1> QED BY <1>6, <1>7, <1>8, <1>9, <1>10, <1>11, <1>12, <1>13, <1>14, <1>15

\* Every step leaves the windows as they should be.
LEMMA ShownStep ==
    ASSUME ShownInv, GamesInv, [MenuNext]_menuVars
    PROVE  ShownInv'
<1>1. CASE Next
  BY <1>1, StartShown, SettingsShown, BoxShown, BoxClosed DEF Next
<1>2. CASE UNCHANGED menuVars
  <2>1. UNCHANGED <<console, gs, screen, win, box>>
    BY <1>2 DEF menuVars, vars
  <2>2. /\ Choosing => DOMAIN box = {"list", "mark", "open"}
        /\ screen = "language" => ListOK(box.list, Len(InstalledLanguages(gs)))
        /\ screen = "themes" => ListOK(box.list, Len(ThemeRows(box.open)))
    BY DEF ShownInv, Choosing, BoxRows
  <2> QED BY <2>1, <2>2, ShownThen DEF ShownInv, Choosing
<1> QED BY <1>1, <1>2, GamesShown DEF MenuNext

\* Whatever keys and pen did, and whichever tabs were left and entered again,
\* the row that has the focus is on the screen, for any console; and so is the
\* selected row of a list window, for any languages and themes and a list of
\* any height.
THEOREM RomInfoRowShown == MenuSpec => []RowShown
<1>1. MenuInit => ShownInv
  BY SettingsOfAll DEF MenuInit, Init, ShownInv, Choosing
<1>2. ShownInv => RowShown
  BY DEF ShownInv, WindowOK, ListOK, RowShown
<1>3. GamesInv /\ FreshInv /\ ShownInv /\ [MenuNext]_menuVars => (GamesInv /\ FreshInv /\ ShownInv)'
  BY GamesStep, ShownStep
<1> QED BY <1>1, <1>2, <1>3, GamesInitial, PTL DEF MenuSpec
-----------------------------------------------------------------------------
(* The file of settings: what is put into it is read from it *)

IsFile(f) == f \in Seq({f[n] : n \in DOMAIN f})

\* The least of a set of numbers
LEMMA FirstIs ==
    ASSUME NEW S, S \subseteq Nat, S # {}, NEW none
    PROVE  FirstOf(S, none) \in S /\ \A y \in S : FirstOf(S, none) <= y
<1>1. \E x \in S : \A y \in S : x <= y
  BY Least
<1> QED BY <1>1 DEF FirstOf

\* A member that no other is below is the first.
LEMMA FirstUnique ==
    ASSUME NEW S, S \subseteq Nat, NEW x \in S, \A y \in S : x <= y, NEW none
    PROVE  FirstOf(S, none) = x
<1> DEFINE m == FirstOf(S, none)
<1>1. m \in S /\ \A y \in S : m <= y
  BY FirstIs
<1> HIDE DEF m
<1>2. m <= x /\ x <= m /\ m \in Nat /\ x \in Nat
  BY <1>1
<1> QED BY <1>2 DEF m

\* Lines that are numbered from 1 are a file.
LEMMA FileOfLines ==
    ASSUME NEW n \in Nat, NEW g, g = [m \in 1 .. n |-> g[m]]
    PROVE  IsFile(g) /\ Len(g) = n
<1> DEFINE S == {g[m] : m \in DOMAIN g}
<1>1. DOMAIN g = 1 .. n
  OBVIOUS
<1>2. \A m \in 1 .. n : g[m] \in S
  BY <1>1
<1> HIDE DEF S
<1>3. g \in [1 .. n -> S]
  BY <1>1, <1>2
<1>4. g \in Seq(S) /\ Len(g) = n
  BY <1>3
<1> QED BY <1>4 DEF IsFile, S

\* A file has a number of lines, counted from 1.
LEMMA LinesOfFile ==
    ASSUME NEW f, IsFile(f)
    PROVE  Len(f) \in Nat /\ DOMAIN f = 1 .. Len(f) /\ f = [m \in 1 .. Len(f) |-> f[m]]
<1> DEFINE S == {f[n] : n \in DOMAIN f}
<1>1. f \in Seq(S)
  BY DEF IsFile
<1> HIDE DEF S
<1> QED BY <1>1

\* Any sequence of lines is a file.
LEMMA FileOfSeq ==
    ASSUME NEW S, NEW f \in Seq(S)
    PROVE  IsFile(f)
<1>1. Len(f) \in Nat /\ f = [m \in 1 .. Len(f) |-> f[m]]
  OBVIOUS
<1> QED BY <1>1, FileOfLines

\* A line inserted, or put in the place of another
LEMMA LineInserted ==
    ASSUME NEW f, IsFile(f), NEW n \in 1 .. Len(f) + 1, NEW l
    PROVE  /\ IsFile(InsertLine(f, n, l)) /\ Len(InsertLine(f, n, l)) = Len(f) + 1
           /\ \A m \in 1 .. Len(f) + 1 :
                 InsertLine(f, n, l)[m] = IF m < n THEN f[m] ELSE IF m = n THEN l ELSE f[m - 1]
<1> DEFINE g == InsertLine(f, n, l)
<1>1. Len(f) \in Nat
  BY LinesOfFile
<1>2. g = [m \in 1 .. Len(f) + 1 |-> IF m < n THEN f[m] ELSE IF m = n THEN l ELSE f[m - 1]]
  BY DEF InsertLine
<1> HIDE DEF g
<1>3. g = [m \in 1 .. Len(f) + 1 |-> g[m]]
  BY <1>2
<1>4. Len(f) + 1 \in Nat
  BY <1>1
<1>5. IsFile(g) /\ Len(g) = Len(f) + 1
  BY <1>3, <1>4, FileOfLines
<1> QED BY <1>2, <1>5 DEF g

\* A line takes the place of another.
LEMMA LineReplaced ==
    ASSUME NEW f, IsFile(f), NEW n \in 1 .. Len(f), NEW l
    PROVE  /\ IsFile(ReplaceLine(f, n, l)) /\ Len(ReplaceLine(f, n, l)) = Len(f)
           /\ ReplaceLine(f, n, l)[n] = l
           /\ \A m \in 1 .. Len(f) : m # n => ReplaceLine(f, n, l)[m] = f[m]
<1> DEFINE g == ReplaceLine(f, n, l)
<1>1. Len(f) \in Nat /\ DOMAIN f = 1 .. Len(f)
  BY LinesOfFile
<1>2. g = [f EXCEPT ![n] = l]
  BY DEF ReplaceLine
<1> HIDE DEF g
<1>3. DOMAIN g = 1 .. Len(f) /\ g = [m \in 1 .. Len(f) |-> g[m]] /\ g[n] = l
      /\ \A m \in 1 .. Len(f) : m # n => g[m] = f[m]
  BY <1>1, <1>2
<1>4. IsFile(g) /\ Len(g) = Len(f)
  BY <1>1, <1>3, FileOfLines
<1> QED BY <1>3, <1>4 DEF g

\* The items of a name between a header and the end of its section
Within(f, h, e, i) == {m \in 1 .. Len(f) : h < m /\ m < e /\ IsItem(f[m], i)}
\* The section s of a file: its header, and where it ends
SectionIs(f, s, h, e) ==
    /\ h \in 1 .. Len(f) /\ IsHeader(f[h], s)
    /\ \A m \in 1 .. Len(f) : m < h => ~IsHeader(f[m], s)
    /\ e \in 1 .. Len(f) + 1 /\ h < e
    /\ \A m \in 1 .. Len(f) : h < m /\ m < e => ~EndsSection(f[m])
    /\ e # Len(f) + 1 => EndsSection(f[e])

\* A section that is found starts and ends where it is said to.
LEMMA SectionFound ==
    ASSUME NEW f, IsFile(f), NEW s, HeaderAt(f, s) # 0
    PROVE  SectionIs(f, s, HeaderAt(f, s), EndAt(f, HeaderAt(f, s)))
<1> DEFINE S == {n \in 1 .. Len(f) : IsHeader(f[n], s)}
           h == FirstOf(S, 0)
           T == {n \in 1 .. Len(f) : h < n /\ EndsSection(f[n])}
           e == FirstOf(T, Len(f) + 1)
<1>1. Len(f) \in Nat /\ HeaderAt(f, s) = h /\ EndAt(f, h) = e
  BY LinesOfFile DEF HeaderAt, EndAt
<1>2. S # {} /\ S \subseteq Nat
  BY <1>1 DEF FirstOf
<1>3. h \in S /\ \A y \in S : h <= y
  BY <1>2, FirstIs
<1> HIDE DEF h
<1>4. /\ h \in 1 .. Len(f) /\ IsHeader(f[h], s)
      /\ \A m \in 1 .. Len(f) : m < h => ~IsHeader(f[m], s)
  BY <1>1, <1>3
<1>5. /\ e \in 1 .. Len(f) + 1 /\ h < e
      /\ \A m \in 1 .. Len(f) : h < m /\ m < e => ~EndsSection(f[m])
      /\ e # Len(f) + 1 => EndsSection(f[e])
  <2>1. CASE T = {}
    <3>1. e = Len(f) + 1
      BY <2>1 DEF FirstOf
    <3> HIDE DEF e
    <3> QED BY <1>1, <1>4, <2>1, <3>1
  <2>2. CASE T # {}
    <3>1. T \subseteq Nat
      OBVIOUS
    <3>2. e \in T /\ \A y \in T : e <= y
      BY <2>2, <3>1, FirstIs
    <3> HIDE DEF e
    <3> QED BY <1>1, <1>4, <3>2
  <2> QED BY <2>1, <2>2
<1> HIDE DEF e
<1> QED BY <1>1, <1>4, <1>5 DEF SectionIs

\* What is read from a section
LEMMA SectionRead ==
    ASSUME NEW f, IsFile(f), NEW s, NEW h, NEW e, SectionIs(f, s, h, e), NEW i
    PROVE  /\ HeaderAt(f, s) = h /\ EndAt(f, h) = e
           /\ ItemAt(f, h, i) = FirstOf(Within(f, h, e, i), 0)
           /\ Within(f, h, e, i) = {} => ItemAt(f, h, i) = 0 /\ GetFileString(f, s, i) = Absent
           /\ Within(f, h, e, i) # {} =>
                 /\ ItemAt(f, h, i) \in Within(f, h, e, i)
                 /\ GetFileString(f, s, i) = f[ItemAt(f, h, i)].value
<1> DEFINE S == {n \in 1 .. Len(f) : IsHeader(f[n], s)}
           T == {n \in 1 .. Len(f) : h < n /\ EndsSection(f[n])}
           W == Within(f, h, e, i)
<1>1. Len(f) \in Nat /\ h \in 1 .. Len(f) /\ e \in 1 .. Len(f) + 1 /\ h < e
  BY LinesOfFile DEF SectionIs
<1>2. HeaderAt(f, s) = h
  <2>1. S \subseteq Nat /\ h \in S /\ \A y \in S : h <= y
    BY <1>1 DEF SectionIs
  <2> HIDE DEF S
  <2>2. FirstOf(S, 0) = h
    BY <2>1, FirstUnique
  <2> QED BY <2>2 DEF S, HeaderAt
<1>3. EndAt(f, h) = e
  <2>1. CASE e = Len(f) + 1
    <3>1. T = {}
      BY <1>1, <2>1 DEF SectionIs
    <3> QED BY <2>1, <3>1 DEF EndAt, FirstOf
  <2>2. CASE e # Len(f) + 1
    <3>1. T \subseteq Nat /\ e \in T /\ \A y \in T : e <= y
      BY <1>1, <2>2 DEF SectionIs
    <3> HIDE DEF T
    <3>2. FirstOf(T, Len(f) + 1) = e
      BY <3>1, FirstUnique
    <3> QED BY <3>2 DEF T, EndAt
  <2> QED BY <2>1, <2>2
<1>4. ItemAt(f, h, i) = FirstOf(W, 0)
  BY <1>3 DEF ItemAt, Within
<1>5. W \subseteq Nat /\ 0 \notin W
  BY DEF Within
<1>6. h # 0
  BY <1>1
<1> HIDE DEF W
<1>7. CASE W = {}
  <2>1. ItemAt(f, h, i) = 0
    BY <1>4, <1>7 DEF FirstOf
  <2> QED BY <1>2, <1>3, <1>4, <1>7, <2>1 DEF GetFileString, W
<1>8. CASE W # {}
  <2>1. ItemAt(f, h, i) \in W
    BY <1>4, <1>5, <1>8, FirstIs
  <2>2. ItemAt(f, h, i) # 0
    BY <1>5, <2>1
  <2> QED BY <1>2, <1>3, <1>4, <1>6, <1>8, <2>1, <2>2 DEF GetFileString, W
<1> QED BY <1>7, <1>8

\* Two files with the same items of a name in a section read the same.
LEMMA SameRead ==
    ASSUME NEW f, IsFile(f), NEW g, IsFile(g), NEW s, NEW h, NEW e, NEW d,
           SectionIs(f, s, h, e), SectionIs(g, s, h, d), NEW i,
           Within(g, h, d, i) = Within(f, h, e, i),
           \A m \in Within(f, h, e, i) : g[m].value = f[m].value
    PROVE  GetFileString(g, s, i) = GetFileString(f, s, i)
<1>1. ItemAt(f, h, i) = ItemAt(g, h, i)
  BY SectionRead
<1>2. CASE Within(f, h, e, i) = {}
  BY <1>2, SectionRead
<1>3. CASE Within(f, h, e, i) # {}
  <2>1. GetFileString(f, s, i) = f[ItemAt(f, h, i)].value /\ ItemAt(f, h, i) \in Within(f, h, e, i)
    BY <1>3, SectionRead
  <2>2. GetFileString(g, s, i) = g[ItemAt(g, h, i)].value
    BY <1>3, SectionRead
  <2> QED BY <1>1, <2>1, <2>2
<1> QED BY <1>2, <1>3

\* SetFileString: the item has the value, and no other item of the section
\* changes.
LEMMA SetReads ==
    ASSUME NEW f, IsFile(f), NEW s, NEW i, NEW v
    PROVE  LET g == SetFileString(f, s, i, v) IN
           /\ IsFile(g) /\ GetFileString(g, s, i) = v
           /\ \A j : j # i => GetFileString(g, s, j) = GetFileString(f, s, j)
<1> DEFINE g == SetFileString(f, s, i, v)
           h == HeaderAt(f, s)
           at == ItemAt(f, h, i)
           e == EndAt(f, h)
           new == Item(i, v)
           n == Len(f)
<1>0. n \in Nat
  BY LinesOfFile
<1>n. /\ IsItem(new, i) /\ new.value = v /\ ~EndsSection(new)
      /\ (\A t : ~IsHeader(new, t)) /\ \A j : j # i => ~IsItem(new, j)
  BY DEF IsItem, IsHeader, EndsSection, Item
<1> SUFFICES /\ IsFile(g) /\ GetFileString(g, s, i) = v
             /\ \A j : j # i => GetFileString(g, s, j) = GetFileString(f, s, j)
  OBVIOUS
<1>1. CASE h = 0
  <2> DEFINE top == Header(s)
             f1 == InsertLine(f, n + 1, top)
             f2 == InsertLine(f1, n + 2, new)
  <2>1. g = f2
    BY <1>1 DEF SetFileString
  <2>2. /\ IsFile(f1) /\ Len(f1) = n + 1
        /\ \A m \in 1 .. n + 1 : f1[m] = IF m < n + 1 THEN f[m] ELSE IF m = n + 1 THEN top ELSE f[m - 1]
    BY <1>0, LineInserted
  <2> HIDE DEF f1
  <2>3. /\ IsFile(f2) /\ Len(f2) = n + 2
        /\ \A m \in 1 .. n + 2 : f2[m] = IF m < n + 2 THEN f1[m] ELSE IF m = n + 2 THEN new ELSE f1[m - 1]
    <3>1. n + 2 \in 1 .. Len(f1) + 1 /\ Len(f1) + 1 = n + 2
      BY <1>0, <2>2
    <3> QED BY <2>2, <3>1, LineInserted
  <2> HIDE DEF f2
  <2>4. f2[n + 1] = top /\ f2[n + 2] = new /\ \A m \in 1 .. n : f2[m] = f[m]
    BY <1>0, <2>2, <2>3
  <2>5. IsHeader(top, s)
    BY DEF IsHeader, Header
  <2>6. \A m \in 1 .. n : ~IsHeader(f[m], s)
    <3>1. {m \in 1 .. n : IsHeader(f[m], s)} = {}
      <4> DEFINE S == {m \in 1 .. n : IsHeader(f[m], s)}
      <4>1. h = FirstOf(S, 0)
        BY DEF HeaderAt
      <4>2. S # {} => FirstOf(S, 0) \in S
        <5>1. S \subseteq Nat
          OBVIOUS
        <5> HIDE DEF S
        <5> QED BY <5>1, FirstIs
      <4> QED BY <1>1, <4>1, <4>2
    <3> QED BY <3>1
  <2> HIDE DEF top, new
  <2>7. SectionIs(f2, s, n + 1, n + 3)
    BY <1>0, <1>n, <2>3, <2>4, <2>5, <2>6 DEF SectionIs
  <2>8. Within(f2, n + 1, n + 3, i) = {n + 2}
    BY <1>0, <1>n, <2>3, <2>4 DEF Within
  <2>9. GetFileString(f2, s, i) = v
    <3>1. /\ ItemAt(f2, n + 1, i) \in Within(f2, n + 1, n + 3, i)
          /\ GetFileString(f2, s, i) = f2[ItemAt(f2, n + 1, i)].value
      BY <2>3, <2>7, <2>8, SectionRead
    <3> QED BY <1>n, <2>4, <2>8, <3>1
  <2>10. ASSUME NEW j, j # i PROVE GetFileString(f2, s, j) = GetFileString(f, s, j)
    <3>1. Within(f2, n + 1, n + 3, j) = {}
      BY <1>0, <1>n, <2>3, <2>4, <2>10 DEF Within
    <3>2. GetFileString(f2, s, j) = Absent
      BY <2>3, <2>7, <3>1, SectionRead
    <3>3. GetFileString(f, s, j) = Absent
      BY <1>1 DEF GetFileString
    <3> QED BY <3>2, <3>3
  <2> QED BY <2>1, <2>3, <2>9, <2>10
<1>2. CASE h # 0
  <2>1. SectionIs(f, s, h, e)
    BY <1>2, SectionFound
  <2>2. /\ h \in 1 .. n /\ IsHeader(f[h], s) /\ e \in 1 .. n + 1 /\ h < e
        /\ \A m \in 1 .. n : m < h => ~IsHeader(f[m], s)
        /\ \A m \in 1 .. n : h < m /\ m < e => ~EndsSection(f[m])
        /\ e # n + 1 => EndsSection(f[e])
    BY <2>1 DEF SectionIs
  <2>3. /\ at = 0 => Within(f, h, e, i) = {}
        /\ at # 0 => at \in Within(f, h, e, i)
        /\ at = FirstOf(Within(f, h, e, i), 0)
    <3>1. 0 \notin Within(f, h, e, i)
      BY DEF Within
    <3> QED BY <2>1, <3>1, SectionRead
  <2> HIDE DEF h, e, at, new
  <2>4. CASE at # 0
    <3>1. at \in 1 .. n /\ h < at /\ at < e /\ IsItem(f[at], i)
      BY <2>3, <2>4 DEF Within
    <3>2. g = ReplaceLine(f, at, new)
      BY <1>2, <2>4 DEF SetFileString, h, at, new
    <3> HIDE DEF g
    <3>3. /\ IsFile(g) /\ Len(g) = n /\ g[at] = new
          /\ \A m \in 1 .. n : m # at => g[m] = f[m]
      BY <3>1, <3>2, LineReplaced
    <3>4. ~EndsSection(f[at]) /\ (\A j : j # i => ~IsItem(f[at], j)) /\ ~IsHeader(f[at], s)
      BY <3>1 DEF IsItem, EndsSection, IsHeader
    <3>5. SectionIs(g, s, h, e)
      <4>1. h \in 1 .. Len(g) /\ IsHeader(g[h], s) /\ e \in 1 .. Len(g) + 1 /\ h < e
        BY <1>0, <2>2, <3>1, <3>3
      <4>2. \A m \in 1 .. Len(g) : m < h => ~IsHeader(g[m], s)
        BY <1>0, <2>2, <3>1, <3>3
      <4>3. \A m \in 1 .. Len(g) : h < m /\ m < e => ~EndsSection(g[m])
        BY <1>0, <1>n, <2>2, <3>1, <3>3
      <4>4. e # Len(g) + 1 => EndsSection(g[e])
        BY <1>0, <2>2, <3>1, <3>3
      <4> QED BY <4>1, <4>2, <4>3, <4>4 DEF SectionIs
    <3>6. Within(g, h, e, i) = Within(f, h, e, i)
      BY <1>n, <3>1, <3>3 DEF Within
    <3>7. GetFileString(g, s, i) = v
      <4>1. ItemAt(g, h, i) = at
        BY <2>3, <3>3, <3>5, <3>6, SectionRead
      <4>2. GetFileString(g, s, i) = g[ItemAt(g, h, i)].value
        BY <2>3, <2>4, <3>3, <3>5, <3>6, SectionRead
      <4> QED BY <1>n, <3>3, <4>1, <4>2
    <3>8. ASSUME NEW j, j # i PROVE GetFileString(g, s, j) = GetFileString(f, s, j)
      <4>1. Within(g, h, e, j) = Within(f, h, e, j)
        BY <1>n, <3>1, <3>3, <3>4, <3>8 DEF Within
      <4>2. \A m \in Within(f, h, e, j) : g[m].value = f[m].value
        BY <3>3, <3>4, <3>8 DEF Within
      <4> QED BY <2>1, <3>3, <3>5, <4>1, <4>2, SameRead
    <3> QED BY <3>3, <3>7, <3>8
  <2>5. CASE at = 0
    <3>1. g = InsertLine(f, e, new)
      BY <1>2, <2>5 DEF SetFileString, h, at, new, e
    <3> HIDE DEF g
    <3>2. /\ IsFile(g) /\ Len(g) = n + 1
          /\ \A m \in 1 .. n + 1 : g[m] = IF m < e THEN f[m] ELSE IF m = e THEN new ELSE f[m - 1]
      BY <2>2, <3>1, LineInserted
    <3>3. /\ g[e] = new /\ \A m \in 1 .. n : m < e => g[m] = f[m]
          /\ e # n + 1 => g[e + 1] = f[e]
      BY <1>0, <2>2, <3>2
    <3>4. SectionIs(g, s, h, e + 1)
      <4>1. h \in 1 .. Len(g) /\ IsHeader(g[h], s) /\ e + 1 \in 1 .. Len(g) + 1 /\ h < e + 1
        BY <1>0, <2>2, <3>2, <3>3
      <4>2. \A m \in 1 .. Len(g) : m < h => ~IsHeader(g[m], s)
        BY <1>0, <2>2, <3>2, <3>3
      <4>3. \A m \in 1 .. Len(g) : h < m /\ m < e + 1 => ~EndsSection(g[m])
        BY <1>0, <1>n, <2>2, <3>2, <3>3
      <4>4. e + 1 # Len(g) + 1 => EndsSection(g[e + 1])
        BY <1>0, <2>2, <3>2, <3>3
      <4> QED BY <4>1, <4>2, <4>3, <4>4 DEF SectionIs
    <3>5. GetFileString(g, s, i) = v
      <4>1. Within(g, h, e + 1, i) = {e}
        <5>1. \A m \in 1 .. n : h < m /\ m < e => ~IsItem(f[m], i)
          BY <2>3, <2>5 DEF Within
        <5> QED BY <1>0, <1>n, <2>2, <3>2, <3>3, <5>1 DEF Within
      <4>2. /\ ItemAt(g, h, i) \in Within(g, h, e + 1, i)
            /\ GetFileString(g, s, i) = g[ItemAt(g, h, i)].value
        BY <3>2, <3>4, <4>1, SectionRead
      <4> QED BY <1>n, <3>3, <4>1, <4>2
    <3>6. ASSUME NEW j, j # i PROVE GetFileString(g, s, j) = GetFileString(f, s, j)
      <4>1. Within(g, h, e + 1, j) = Within(f, h, e, j)
        BY <1>0, <1>n, <2>2, <3>2, <3>3, <3>6 DEF Within
      <4>2. \A m \in Within(f, h, e, j) : g[m].value = f[m].value
        BY <3>3 DEF Within
      <4> QED BY <2>1, <3>2, <3>4, <4>1, <4>2, SameRead
    <3> QED BY <3>2, <3>5, <3>6
  <2> QED BY <2>4, <2>5
<1> QED BY <1>1, <1>2

\* The empty word
NoWord == Word("")

\* SetString: the same, but an empty word is not added where there is no item.
LEMMA PutReads ==
    ASSUME NEW f, IsFile(f), NEW s, NEW i, NEW v
    PROVE  /\ IsFile(Put(f, s, i, v))
           /\ v = NoWord /\ GetFileString(f, s, i) = Absent => Put(f, s, i, v) = f
           /\ ~(v = NoWord /\ GetFileString(f, s, i) = Absent) =>
                 GetFileString(Put(f, s, i, v), s, i) = v
           /\ \A j : j # i => GetFileString(Put(f, s, i, v), s, j) = GetFileString(f, s, j)
<1> DEFINE g == Put(f, s, i, v)
           old == GetFileString(f, s, i)
<1> SUFFICES /\ IsFile(g)
             /\ v = NoWord /\ old = Absent => g = f
             /\ ~(v = NoWord /\ old = Absent) => GetFileString(g, s, i) = v
             /\ \A j : j # i => GetFileString(g, s, j) = GetFileString(f, s, j)
  OBVIOUS
<1>1. CASE old = v \/ (old = Absent /\ v = NoWord)
  <2>1. g = f
    BY <1>1 DEF Put, NoWord
  <2>2. GetFileString(g, s, i) = old /\ \A j : GetFileString(g, s, j) = GetFileString(f, s, j)
    BY <2>1
  <2>3. IsFile(g)
    BY <2>1
  <2> HIDE DEF g, old
  <2> QED BY <1>1, <2>1, <2>2, <2>3
<1>2. CASE ~(old = v \/ (old = Absent /\ v = NoWord))
  <2>1. g = SetFileString(f, s, i, v)
    BY <1>2 DEF Put, NoWord
  <2> HIDE DEF g, old
  <2>2. /\ IsFile(g) /\ GetFileString(g, s, i) = v
        /\ \A j : j # i => GetFileString(g, s, j) = GetFileString(f, s, j)
    BY <2>1, SetReads
  <2> QED BY <1>2, <2>2
<1> QED BY <1>1, <1>2

\* The same, of a file that was put.
LEMMA PutAs ==
    ASSUME NEW f, IsFile(f), NEW s, NEW i, NEW v, NEW g, g = Put(f, s, i, v)
    PROVE  /\ IsFile(g)
           /\ v = NoWord /\ GetFileString(f, s, i) = Absent => g = f
           /\ ~(v = NoWord /\ GetFileString(f, s, i) = Absent) => GetFileString(g, s, i) = v
           /\ \A j : j # i => GetFileString(g, s, j) = GetFileString(f, s, j)
BY PutReads

\* The lines kept of the first k of a file, and where each of them was
Kept(raw, lines, k, at) ==
    /\ IsFile(lines) /\ at \in [1 .. Len(lines) -> 1 .. k]
    /\ \A a, b \in 1 .. Len(lines) : a < b => at[a] < at[b]
    /\ \A a \in 1 .. Len(lines) : lines[a] = raw[at[a]]
    /\ \A p \in 1 .. k : raw[p].kind # "comment" => \E a \in 1 .. Len(lines) : at[a] = p

\* What is read does not depend on the comments.
LEMMA KeptReads ==
    ASSUME NEW raw, IsFile(raw), NEW lines, NEW at, Kept(raw, lines, Len(raw), at), NEW s, NEW i
    PROVE  GetFileString(lines, s, i) = GetFileString(raw, s, i)
<1> DEFINE D == 1 .. Len(lines)
           n == Len(raw)
           h == HeaderAt(lines, s)
           e == EndAt(lines, h)
           y == IF e = Len(lines) + 1 THEN n + 1 ELSE at[e]
<1>1. /\ Len(lines) \in Nat /\ n \in Nat /\ IsFile(lines)
      /\ \A a \in D : at[a] \in 1 .. n /\ lines[a] = raw[at[a]]
      /\ \A p \in 1 .. n : raw[p].kind # "comment" => \E a \in D : at[a] = p
  BY LinesOfFile DEF Kept
<1>2. \A a, b \in D : at[a] < at[b] <=> a < b
  <2> SUFFICES ASSUME NEW a \in D, NEW b \in D PROVE at[a] < at[b] <=> a < b
    OBVIOUS
  <2>1. at[a] \in Int /\ at[b] \in Int /\ a \in Int /\ b \in Int
    BY <1>1
  <2>2. (a < b => at[a] < at[b]) /\ (b < a => at[b] < at[a]) /\ (a = b => at[a] = at[b])
    BY DEF Kept
  <2> QED BY <2>1, <2>2
<1>3. /\ \A l : IsHeader(l, s) \/ EndsSection(l) \/ IsItem(l, i) => l.kind # "comment"
  BY DEF IsHeader, EndsSection, IsItem
<1>4. CASE h = 0
  <2>1. \A a \in D : ~IsHeader(lines[a], s)
    <3> DEFINE S == {a \in D : IsHeader(lines[a], s)}
    <3>1. S # {} => FirstOf(S, 0) \in S
      <4>1. S \subseteq Nat
        BY <1>1
      <4> HIDE DEF S
      <4> QED BY <4>1, FirstIs
    <3>2. FirstOf(S, 0) = h
      BY DEF HeaderAt
    <3>3. S = {}
      BY <1>4, <3>1, <3>2
    <3> QED BY <3>3
  <2>2. \A p \in 1 .. n : ~IsHeader(raw[p], s)
    BY <1>1, <1>3, <2>1
  <2>3. HeaderAt(raw, s) = 0
    <3>1. {p \in 1 .. n : IsHeader(raw[p], s)} = {}
      BY <2>2
    <3> QED BY <3>1 DEF HeaderAt, FirstOf
  <2> QED BY <1>4, <2>3 DEF GetFileString
<1>5. CASE h # 0
  <2>1. SectionIs(lines, s, h, e)
    BY <1>1, <1>5, SectionFound
  <2>2. /\ h \in D /\ IsHeader(lines[h], s) /\ e \in 1 .. Len(lines) + 1 /\ h < e
        /\ \A m \in D : m < h => ~IsHeader(lines[m], s)
        /\ \A m \in D : h < m /\ m < e => ~EndsSection(lines[m])
        /\ e # Len(lines) + 1 => e \in D /\ EndsSection(lines[e])
    BY <1>1, <2>1 DEF SectionIs
  <2> HIDE DEF h, e
  <2>3. \A a \in D : a < e <=> at[a] < y
    <3>1. CASE e = Len(lines) + 1
      BY <1>1, <3>1
    <3>2. CASE e # Len(lines) + 1
      <4>1. e \in D /\ y = at[e]
        BY <2>2, <3>2
      <4> QED BY <1>2, <4>1
    <3> QED BY <3>1, <3>2
  <2>4. y \in 1 .. n + 1 /\ at[h] < y /\ at[h] \in 1 .. n /\ (y # n + 1 => EndsSection(raw[y]))
    <3>1. at[h] < y
      BY <2>2, <2>3
    <3>2. y \in 1 .. n + 1
      BY <1>1, <2>2
    <3>3. y # n + 1 => EndsSection(raw[y])
      BY <1>1, <2>2
    <3> QED BY <1>1, <2>2, <3>1, <3>2, <3>3
  <2> HIDE DEF y
  <2>5. IsHeader(raw[at[h]], s)
    BY <1>1, <2>2
  <2>6. ASSUME NEW m \in 1 .. n, m < at[h] PROVE ~IsHeader(raw[m], s)
    <3> SUFFICES ASSUME IsHeader(raw[m], s) PROVE FALSE
      OBVIOUS
    <3>1. PICK a \in D : at[a] = m
      BY <1>1, <1>3
    <3>2. a < h /\ lines[a] = raw[m]
      BY <1>1, <1>2, <2>2, <2>6, <3>1
    <3> QED BY <2>2, <3>2
  <2>7. ASSUME NEW m \in 1 .. n, at[h] < m, m < y PROVE ~EndsSection(raw[m])
    <3> SUFFICES ASSUME EndsSection(raw[m]) PROVE FALSE
      OBVIOUS
    <3>1. PICK a \in D : at[a] = m
      BY <1>1, <1>3
    <3>2. h < a /\ a < e /\ lines[a] = raw[m]
      BY <1>1, <1>2, <2>2, <2>3, <2>7, <3>1
    <3> QED BY <2>2, <3>2
  <2>8. SectionIs(raw, s, at[h], y)
    BY <2>4, <2>5, <2>6, <2>7 DEF SectionIs
  <2> DEFINE W == Within(lines, h, e, i)
             V == Within(raw, at[h], y, i)
  <2>9. ASSUME NEW a \in W PROVE at[a] \in V
    <3>1. a \in D /\ h < a /\ a < e /\ IsItem(lines[a], i)
      BY <2>9 DEF Within
    <3>2. at[a] \in 1 .. n /\ at[h] < at[a] /\ at[a] < y /\ IsItem(raw[at[a]], i)
      BY <1>1, <1>2, <2>2, <2>3, <3>1
    <3> QED BY <3>2 DEF Within
  <2>10. ASSUME NEW m \in V PROVE \E a \in W : at[a] = m
    <3>1. m \in 1 .. n /\ at[h] < m /\ m < y /\ IsItem(raw[m], i)
      BY <2>10 DEF Within
    <3>2. PICK a \in D : at[a] = m
      BY <1>1, <1>3, <3>1
    <3>3. h < a /\ a < e /\ IsItem(lines[a], i)
      BY <1>1, <1>2, <2>2, <2>3, <3>1, <3>2
    <3> QED BY <3>2, <3>3 DEF Within
  <2>11. W \subseteq D /\ V \subseteq 1 .. n
    BY DEF Within
  <2> HIDE DEF W, V
  <2>12. CASE W = {}
    <3>1. V = {}
      BY <2>10, <2>12
    <3>2. GetFileString(lines, s, i) = Absent
      BY <1>1, <2>1, <2>12, SectionRead DEF W
    <3>3. GetFileString(raw, s, i) = Absent
      BY <2>8, <3>1, SectionRead DEF V
    <3> QED BY <3>2, <3>3
  <2>13. CASE W # {}
    <3> DEFINE a == FirstOf(W, 0)
    <3>1. W \subseteq Nat
      BY <1>1, <2>11
    <3>2. a \in W /\ \A b \in W : a <= b
      BY <2>13, <3>1, FirstIs
    <3>3. /\ ItemAt(lines, h, i) = a
          /\ GetFileString(lines, s, i) = lines[ItemAt(lines, h, i)].value
      BY <1>1, <2>1, <2>13, SectionRead DEF W
    <3> HIDE DEF a
    <3>4. at[a] \in V /\ V \subseteq Nat
      BY <1>1, <2>9, <2>11, <3>2
    <3>5. ASSUME NEW m \in V PROVE at[a] <= m
      <4>1. PICK b \in W : at[b] = m
        BY <2>10
      <4>2. a <= b /\ a \in D /\ b \in D
        BY <2>11, <3>2
      <4>3. a \in Int /\ b \in Int /\ at[a] \in Int /\ at[b] \in Int
        BY <1>1, <4>2
      <4>4. ~(at[b] < at[a])
        BY <1>2, <4>2, <4>3
      <4> QED BY <4>1, <4>3, <4>4
    <3>6. FirstOf(V, 0) = at[a]
      BY <3>4, <3>5, FirstUnique
    <3>7. V # {}
      BY <3>4
    <3>8. ItemAt(raw, at[h], i) = at[a] /\ GetFileString(raw, s, i) = raw[ItemAt(raw, at[h], i)].value
      BY <2>8, <3>6, <3>7, SectionRead DEF V
    <3>9. lines[a] = raw[at[a]]
      BY <1>1, <2>11, <3>2
    <3> QED BY <3>3, <3>8, <3>9
  <2> QED BY <2>12, <2>13
<1> QED BY <1>4, <1>5

\* LoadIniFile: every item reads as it does in the file.
LEMMA LoadedReads ==
    ASSUME NEW raw, IsFile(raw)
    PROVE  /\ IsFile(LoadIniFile(raw))
           /\ \A s, i : GetFileString(LoadIniFile(raw), s, i) = GetFileString(raw, s, i)
<1> DEFINE n == Len(raw)
           S == {raw[m] : m \in {p \in 1 .. n : raw[p].kind # "comment"}}
           g == LoadedUpTo(raw)
<1>1. n \in Nat
  BY LinesOfFile
<1>2. /\ DOMAIN g = 0 .. n
      /\ \A k \in 0 .. n : g[k] = IF k = 0 THEN <<>>
                                  ELSE IF raw[k].kind = "comment" THEN g[k - 1]
                                  ELSE Append(g[k - 1], raw[k])
  <2>1. PICK f : DOMAIN f = 0 .. n /\ Steps(raw, S, f)
    BY <1>1, LoopRuns
  <2>2. \A k \in 1 .. n : raw[k] \in S <=> raw[k].kind # "comment"
    OBVIOUS
  <2> HIDE DEF S
  <2>3. \A k \in 0 .. n : f[k] = IF k = 0 THEN <<>>
                                 ELSE IF raw[k].kind = "comment" THEN f[k - 1]
                                 ELSE Append(f[k - 1], raw[k])
    <3> SUFFICES ASSUME NEW k \in 0 .. n
                 PROVE  f[k] = IF k = 0 THEN <<>>
                               ELSE IF raw[k].kind = "comment" THEN f[k - 1]
                               ELSE Append(f[k - 1], raw[k])
      OBVIOUS
    <3>1. f[k] = IF k = 0 THEN <<>>
                 ELSE IF raw[k] \in S THEN Append(f[k - 1], raw[k]) ELSE f[k - 1]
      BY <2>1 DEF Steps
    <3>2. k # 0 => k \in 1 .. n
      BY <1>1
    <3> QED BY <2>2, <3>1, <3>2
  <2>4. f = [k \in 0 .. n |-> f[k]]
    BY <2>1 DEF Steps
  <2>5. f = [k \in 0 .. n |-> IF k = 0 THEN <<>>
                              ELSE IF raw[k].kind = "comment" THEN f[k - 1]
                              ELSE Append(f[k - 1], raw[k])]
    BY <2>3, <2>4
  <2>6. g = [k \in 0 .. n |-> IF k = 0 THEN <<>>
                              ELSE IF raw[k].kind = "comment" THEN g[k - 1]
                              ELSE Append(g[k - 1], raw[k])]
    BY <2>5 DEF LoadedUpTo
  <2> HIDE DEF g
  <2> QED BY <2>6
<1> HIDE DEF g
<1> DEFINE Good == {k \in Nat : k <= n => \E at : Kept(raw, g[k], k, at)}
<1>3. 0 \in Good
  <2>1. g[0] = <<>>
    BY <1>1, <1>2
  <2>2. IsFile(<<>>) /\ Len(<<>>) = 0
    <3>1. <<>> \in Seq({})
      OBVIOUS
    <3> QED BY <3>1, FileOfSeq
  <2>3. Kept(raw, <<>>, 0, <<>>)
    <3>1. 1 .. 0 = {} /\ <<>> \in [1 .. 0 -> 1 .. 0]
      OBVIOUS
    <3> QED BY <2>2, <3>1 DEF Kept
  <2> QED BY <2>1, <2>3
<1>4. ASSUME NEW k \in Nat, k \in Good PROVE k + 1 \in Good
  <2> SUFFICES ASSUME k + 1 <= n PROVE \E at : Kept(raw, g[k + 1], k + 1, at)
    OBVIOUS
  <2> DEFINE lines == g[k]
             l == raw[k + 1]
             w == Len(lines)
  <2>1. PICK at : Kept(raw, lines, k, at)
    BY <1>1, <1>4
  <2>2. g[k + 1] = IF l.kind = "comment" THEN lines ELSE Append(lines, l)
    <3>1. k + 1 \in 0 .. n /\ k + 1 # 0 /\ (k + 1) - 1 = k
      BY <1>1
    <3> QED BY <1>2, <3>1
  <2>3. /\ w \in Nat /\ IsFile(lines) /\ at \in [1 .. w -> 1 .. k]
        /\ \A a, b \in 1 .. w : a < b => at[a] < at[b]
        /\ \A a \in 1 .. w : lines[a] = raw[at[a]]
        /\ \A p \in 1 .. k : raw[p].kind # "comment" => \E a \in 1 .. w : at[a] = p
    BY <2>1, LinesOfFile DEF Kept
  <2> HIDE DEF lines, l
  <2>4. CASE l.kind = "comment"
    <3>1. at \in [1 .. w -> 1 .. k + 1]
      BY <2>3
    <3>2. \A p \in 1 .. k + 1 : raw[p].kind # "comment" => \E a \in 1 .. w : at[a] = p
      <4>1. \A p \in 1 .. k + 1 : p \in 1 .. k \/ p = k + 1
        OBVIOUS
      <4>2. raw[k + 1].kind = "comment"
        BY <2>4 DEF l
      <4> QED BY <2>3, <4>1, <4>2
    <3>3. Kept(raw, lines, k + 1, at)
      BY <2>3, <3>1, <3>2 DEF Kept
    <3> QED BY <2>2, <2>4, <3>3
  <2>5. CASE l.kind # "comment"
    <3> DEFINE more == Append(lines, l)
               to == [a \in 1 .. w + 1 |-> IF a = w + 1 THEN k + 1 ELSE at[a]]
    <3>1. /\ IsFile(more) /\ Len(more) = w + 1 /\ more[w + 1] = l
          /\ \A a \in 1 .. w : more[a] = lines[a]
      <4> DEFINE X == {lines[a] : a \in DOMAIN lines} \cup {l}
      <4>1. lines \in Seq(X) /\ l \in X
        <5> DEFINE Y == {lines[a] : a \in DOMAIN lines}
        <5>1. lines \in Seq(Y)
          BY <2>3 DEF IsFile
        <5> HIDE DEF Y
        <5>2. lines \in Seq(Y \cup {l})
          BY <5>1
        <5> QED BY <5>2 DEF Y
      <4> HIDE DEF X
      <4>2. more \in Seq(X) /\ Len(more) = w + 1 /\ more[w + 1] = l
            /\ \A a \in 1 .. w : more[a] = lines[a]
        BY <4>1
      <4> QED BY <4>2, FileOfSeq
    <3>2. to \in [1 .. w + 1 -> 1 .. k + 1]
      BY <2>3
    <3>3. \A a, b \in 1 .. w + 1 : a < b => to[a] < to[b]
      <4> SUFFICES ASSUME NEW a \in 1 .. w + 1, NEW b \in 1 .. w + 1, a < b PROVE to[a] < to[b]
        OBVIOUS
      <4>1. a \in 1 .. w /\ to[a] = at[a] /\ at[a] \in 1 .. k
        BY <2>3
      <4>2. CASE b = w + 1
        BY <2>3, <4>1, <4>2
      <4>3. CASE b \in 1 .. w
        BY <2>3, <4>1, <4>3
      <4>4. w \in Nat
        BY <2>3
      <4> HIDE DEF to, w
      <4> QED BY <4>2, <4>3, <4>4
    <3>4. \A a \in 1 .. w + 1 : more[a] = raw[to[a]]
      BY <2>3, <3>1 DEF l
    <3>5. \A p \in 1 .. k + 1 : raw[p].kind # "comment" => \E a \in 1 .. w + 1 : to[a] = p
      <4> SUFFICES ASSUME NEW p \in 1 .. k + 1, raw[p].kind # "comment"
                   PROVE  \E a \in 1 .. w + 1 : to[a] = p
        OBVIOUS
      <4>1. CASE p = k + 1
        BY <2>3, <4>1
      <4>2. CASE p \in 1 .. k
        BY <2>3, <4>2
      <4> QED BY <4>1, <4>2
    <3> HIDE DEF more, to
    <3>6. Kept(raw, more, k + 1, to)
      BY <3>1, <3>2, <3>3, <3>4, <3>5 DEF Kept
    <3> QED BY <2>2, <2>5, <3>6 DEF more
  <2> QED BY <2>4, <2>5
<1> HIDE DEF Good
<1>5. n \in Good
  BY <1>1, <1>3, <1>4, Counting
<1>6. PICK at : Kept(raw, g[n], n, at)
  BY <1>1, <1>5 DEF Good
<1>7. LoadIniFile(raw) = g[n]
  BY DEF LoadIniFile, g
<1>8. IsFile(g[n])
  BY <1>6 DEF Kept
<1> QED BY <1>6, <1>7, <1>8, KeptReads

-----------------------------------------------------------------------------
(* The settings in the file: what gs() has is what the next start reads *)

\* What an item means
Meaning(k, text) ==
    IF text = Absent THEN Default(k)
    ELSE IF k \in Names THEN IF text.k = "word" THEN text.w ELSE ""
    ELSE IF k \in DOMAIN Spellings
    THEN LET words == Spellings[k]
             n == FirstOf({i \in 1 .. Len(words) : text = Word(words[i][2])}, Len(words))
         IN  words[n][1]
    ELSE LET n == AsNumber(text) IN
         IF k \in DOMAIN Bounds
         THEN IF Bounds[k][1] <= n /\ n <= Bounds[k][2] THEN n ELSE Bounds[k][3]
         ELSE n

\* Values that are read as they were written
Spellable(k, v) == \E i \in 1 .. Len(Spellings[k]) : v = Spellings[k][i][1]
Stable(k, v) ==
    /\ k \in DOMAIN Spellings => Spellable(k, v)
    /\ k \in DOMAIN Bounds => Bounds[k][1] <= v /\ v <= Bounds[k][2]

\* Reading a setting is making something of its item.
LEMMA ReadMeans == ASSUME NEW k, NEW f PROVE Read(k, f) = Meaning(k, GetFileString(f, "system", k))
BY DEF Read, Meaning

\* The words of a setting differ, none is empty.
LEMMA WordsDiffer ==
    ASSUME NEW k \in DOMAIN Spellings
    PROVE  /\ Len(Spellings[k]) \in Nat \ {0}
           /\ \A i \in 1 .. Len(Spellings[k]) : Spellings[k][i][2] # ""
           /\ \A i, j \in 1 .. Len(Spellings[k]) : Spellings[k][i][2] = Spellings[k][j][2] => i = j
<1>1. k \in {"saveext", "scrollSpeed", "viewMode", "slot2mode"}
  BY DEF Spellings
<1> DEFINE words == Spellings[k]
<1> SUFFICES /\ Len(words) \in Nat \ {0}
             /\ \A i \in 1 .. Len(words) : words[i][2] # ""
             /\ \A i, j \in 1 .. Len(words) : words[i][2] = words[j][2] => i = j
  OBVIOUS
<1>2. CASE k = "saveext"
  <2>1. words = <<<<1, ".sav">>, <<0, ".nds.sav">>>>
    BY <1>2 DEF Spellings
  <2> HIDE DEF words
  <2>2. Len(words) = 2 /\ words[1][2] = ".sav" /\ words[2][2] = ".nds.sav"
    BY <2>1
  <2>3. \A i \in 1 .. 2 : i = 1 \/ i = 2
    OBVIOUS
  <2>4. \A i \in 1 .. Len(words) : words[i][2] # ""
    BY <2>2, <2>3
  <2>5. \A i, j \in 1 .. Len(words) : words[i][2] = words[j][2] => i = j
    BY <2>2, <2>3
  <2>6. Len(words) \in Nat \ {0}
    BY <2>2
  <2> QED BY <2>4, <2>5, <2>6
<1>3. CASE k = "scrollSpeed"
  <2>1. words = <<<<16, "slow">>, <<10, "medium">>, <<4, "fast">>>>
    BY <1>3 DEF Spellings
  <2> HIDE DEF words
  <2>2. Len(words) = 3 /\ words[1][2] = "slow" /\ words[2][2] = "medium" /\ words[3][2] = "fast"
    BY <2>1
  <2>3. \A i \in 1 .. 3 : i = 1 \/ i = 2 \/ i = 3
    OBVIOUS
  <2>4. \A i \in 1 .. Len(words) : words[i][2] # ""
    BY <2>2, <2>3
  <2>5. \A i, j \in 1 .. Len(words) : words[i][2] = words[j][2] => i = j
    BY <2>2, <2>3
  <2>6. Len(words) \in Nat \ {0}
    BY <2>2
  <2> QED BY <2>4, <2>5, <2>6
<1>4. CASE k = "viewMode"
  <2>1. words = <<<<0, "list">>, <<1, "icon">>, <<3, "small">>, <<2, "internal">>>>
    BY <1>4 DEF Spellings
  <2> HIDE DEF words
  <2>2. Len(words) = 4 /\ words[1][2] = "list" /\ words[2][2] = "icon" /\ words[3][2] = "small"
        /\ words[4][2] = "internal"
    BY <2>1
  <2>3. \A i \in 1 .. 4 : i = 1 \/ i = 2 \/ i = 3 \/ i = 4
    OBVIOUS
  <2>4. \A i \in 1 .. Len(words) : words[i][2] # ""
    BY <2>2, <2>3
  <2>5. \A i, j \in 1 .. Len(words) : words[i][2] = words[j][2] => i = j
    BY <2>2, <2>3
  <2>6. Len(words) \in Nat \ {0}
    BY <2>2
  <2> QED BY <2>4, <2>5, <2>6
<1>5. CASE k = "slot2mode"
  <2>1. words = <<<<1, "gba">>, <<2, "nds">>, <<0, "ask">>>>
    BY <1>5 DEF Spellings
  <2> HIDE DEF words
  <2>2. Len(words) = 3 /\ words[1][2] = "gba" /\ words[2][2] = "nds" /\ words[3][2] = "ask"
    BY <2>1
  <2>3. \A i \in 1 .. 3 : i = 1 \/ i = 2 \/ i = 3
    OBVIOUS
  <2>4. \A i \in 1 .. Len(words) : words[i][2] # ""
    BY <2>2, <2>3
  <2>5. \A i, j \in 1 .. Len(words) : words[i][2] = words[j][2] => i = j
    BY <2>2, <2>3
  <2>6. Len(words) \in Nat \ {0}
    BY <2>2
  <2> QED BY <2>4, <2>5, <2>6
<1> QED BY <1>1, <1>2, <1>3, <1>4, <1>5

\* Which of the words, bounds and names a setting has
LEMMA KindsApart ==
    /\ DOMAIN Spellings = {"saveext", "scrollSpeed", "viewMode", "slot2mode"}
    /\ DOMAIN Bounds = {"hbstrap", "icon", "fileSortMode", "saveSlotOverride"}
    /\ Names = {"uiName", "langDirectory"}
BY DEF Spellings, Bounds, Names

\* A setting is read as it was spelled.
LEMMA SpelledMeans ==
    ASSUME NEW k, NEW v, Stable(k, v)
    PROVE  /\ Spelled(k, v) # Absent /\ Meaning(k, Spelled(k, v)) = v
           /\ Spelled(k, v) = Word("") => k \in Names /\ v = ""
<1>0. \A w, n : Word(w) # Absent /\ Number(n) # Absent /\ Number(n) # Word(w)
  <2>1. \A w, n : Word(w).k = "word" /\ Number(n).k = "number" /\ Absent.k = "absent"
    BY DEF Word, Number, Absent
  <2> QED BY <2>1
<1>1. CASE k \in Names
  <2>1. Spelled(k, v) = Word(v)
    BY <1>1 DEF Spelled
  <2>2. Word(v).k = "word" /\ Word(v).w = v /\ Word("").w = ""
    BY DEF Word
  <2>3. Meaning(k, Word(v)) = v
    BY <1>0, <1>1, <2>2 DEF Meaning
  <2> QED BY <1>0, <1>1, <2>1, <2>2, <2>3
<1>2. CASE k \in DOMAIN Spellings
  <2> DEFINE words == Spellings[k]
             S == {i \in 1 .. Len(words) : words[i][1] = v}
             n == FirstOf(S, Len(words))
             T == {i \in 1 .. Len(words) : Word(words[n][2]) = Word(words[i][2])}
             m == FirstOf(T, Len(words))
  <2>1. k \notin Names
    BY <1>2, KindsApart
  <2>2. S # {} /\ S \subseteq Nat
    BY <1>2 DEF Stable, Spellable
  <2>3. n \in S
    BY <2>2, FirstIs
  <2>4. Spelled(k, v) = Word(words[n][2])
    BY <1>2, <2>1 DEF Spelled
  <2>5. n \in 1 .. Len(words) /\ words[n][1] = v
    BY <2>3
  <2> HIDE DEF n
  <2>6. T # {} /\ T \subseteq Nat
    BY <2>5
  <2>7. m \in T
    BY <2>6, FirstIs
  <2>8. Meaning(k, Word(words[n][2])) = words[m][1]
    BY <1>0, <1>2, <2>1 DEF Meaning
  <2>9. m \in 1 .. Len(words) /\ Word(words[n][2]) = Word(words[m][2])
    BY <2>7
  <2> HIDE DEF m
  <2>10. \A a, b : Word(a) = Word(b) => a = b
    <3>1. \A a : Word(a).w = a
      BY DEF Word
    <3> QED BY <3>1
  <2>11. words[n][2] = words[m][2] /\ words[n][2] # ""
    BY <1>2, <2>5, <2>9, <2>10, WordsDiffer
  <2>12. m = n
    BY <1>2, <2>5, <2>9, <2>11, WordsDiffer
  <2>13. Word(words[n][2]) # Word("")
    BY <2>10, <2>11
  <2> QED BY <1>0, <2>4, <2>5, <2>8, <2>12, <2>13
<1>3. CASE k \notin Names /\ k \notin DOMAIN Spellings
  <2>1. Spelled(k, v) = Number(v)
    BY <1>3 DEF Spelled
  <2>2. AsNumber(Number(v)) = v
    BY DEF AsNumber, Number
  <2>3. Meaning(k, Number(v)) = v
    <3>1. Meaning(k, Number(v)) =
             (LET n == AsNumber(Number(v)) IN
              IF k \in DOMAIN Bounds
              THEN IF Bounds[k][1] <= n /\ n <= Bounds[k][2] THEN n ELSE Bounds[k][3]
              ELSE n)
      BY <1>0, <1>3 DEF Meaning
    <3> QED BY <2>2, <3>1 DEF Stable
  <2> QED BY <1>0, <2>1, <2>3
<1> QED BY <1>1, <1>2, <1>3

\* What a start makes of an item is written as it is read.
LEMMA MeaningIsStable ==
    ASSUME NEW k, NEW text
    PROVE  Stable(k, Meaning(k, text))
<1>1. CASE text = Absent
  <2>1. Meaning(k, text) = Default(k)
    BY <1>1 DEF Meaning
  <2>2. ASSUME k \in DOMAIN Spellings PROVE Spellable(k, Default(k))
    <3>1. CASE k = "saveext"
      <4>1. Default(k) = 1
        BY <3>1 DEF Default
      <4>2. 1 \in 1 .. Len(Spellings[k]) /\ Spellings[k][1][1] = 1
        BY <3>1 DEF Spellings
      <4> QED BY <4>1, <4>2 DEF Spellable
    <3>2. CASE k = "scrollSpeed"
      <4>1. Default(k) = 4
        BY <3>2 DEF Default
      <4>2. 3 \in 1 .. Len(Spellings[k]) /\ Spellings[k][3][1] = 4
        BY <3>2 DEF Spellings
      <4> QED BY <4>1, <4>2 DEF Spellable
    <3>3. CASE k = "viewMode"
      <4>1. Default(k) = 1
        BY <3>3 DEF Default
      <4>2. 2 \in 1 .. Len(Spellings[k]) /\ Spellings[k][2][1] = 1
        BY <3>3 DEF Spellings
      <4> QED BY <4>1, <4>2 DEF Spellable
    <3>4. CASE k = "slot2mode"
      <4>1. Default(k) = 0
        BY <3>4 DEF Default, On
      <4>2. 3 \in 1 .. Len(Spellings[k]) /\ Spellings[k][3][1] = 0
        BY <3>4 DEF Spellings
      <4> QED BY <4>1, <4>2 DEF Spellable
    <3> QED BY <2>2, <3>1, <3>2, <3>3, <3>4, KindsApart
  <2>3. ASSUME k \in DOMAIN Bounds PROVE Bounds[k][1] <= Default(k) /\ Default(k) <= Bounds[k][2]
    <3>1. CASE k \in {"hbstrap", "fileSortMode"}
      BY <3>1 DEF Default, On, Bounds
    <3>2. CASE k \in {"icon", "saveSlotOverride"}
      BY <3>2 DEF Default, Bounds
    <3> QED BY <2>3, <3>1, <3>2, KindsApart
  <2> QED BY <2>1, <2>2, <2>3 DEF Stable
<1>2. CASE text # Absent /\ k \in DOMAIN Spellings
  <2> DEFINE words == Spellings[k]
             T == {i \in 1 .. Len(words) : text = Word(words[i][2])}
             m == FirstOf(T, Len(words))
  <2>1. k \notin Names /\ k \notin DOMAIN Bounds
    BY <1>2, KindsApart
  <2>2. Meaning(k, text) = words[m][1]
    BY <1>2, <2>1 DEF Meaning
  <2>3. m \in 1 .. Len(words)
    <3>0. Len(words) \in Nat \ {0}
      BY <1>2, WordsDiffer
    <3>1. T \subseteq Nat /\ Len(words) \in Nat \ {0}
      BY <3>0
    <3>2. CASE T = {}
      BY <3>1, <3>2 DEF FirstOf
    <3>3. CASE T # {}
      <4>1. m \in T
        BY <3>1, <3>3, FirstIs
      <4> QED BY <4>1
    <3> QED BY <3>2, <3>3
  <2> HIDE DEF m
  <2> QED BY <2>1, <2>2, <2>3 DEF Stable, Spellable
<1>3. CASE text # Absent /\ k \in DOMAIN Bounds
  <2>1. k \notin Names /\ k \notin DOMAIN Spellings
    BY <1>3, KindsApart
  <2> DEFINE n == AsNumber(text)
  <2>2. Meaning(k, text) = IF Bounds[k][1] <= n /\ n <= Bounds[k][2] THEN n ELSE Bounds[k][3]
    BY <1>3, <2>1 DEF Meaning
  <2> HIDE DEF n
  <2>3. Bounds[k][1] <= Bounds[k][3] /\ Bounds[k][3] <= Bounds[k][2]
    <3>1. CASE k \in {"hbstrap", "icon"}
      BY <3>1 DEF Bounds
    <3>2. CASE k \in {"fileSortMode", "saveSlotOverride"}
      BY <3>2 DEF Bounds
    <3> QED BY <1>3, <3>1, <3>2, KindsApart
  <2> QED BY <2>1, <2>2, <2>3 DEF Stable
<1> QED BY <1>1, <1>2, <1>3 DEF Stable

\* The file with a setting written, and a name that is empty
WrittenIn(f, k, v) == Put(f, "system", k, Spelled(k, v))
Unnamed(k, v) == k \in Names /\ v = ""

\* The item of a setting is written, and no other setting changes.
LEMMA PutKeeps ==
    ASSUME NEW f, IsFile(f), NEW k, NEW v, Stable(k, v), Unnamed(k, v) => Read(k, f) = v
    PROVE  /\ IsFile(WrittenIn(f, k, v)) /\ Read(k, WrittenIn(f, k, v)) = v
           /\ \A j : j # k => Read(j, WrittenIn(f, k, v)) = Read(j, f)
<1> SUFFICES ASSUME NEW sec, sec = "system", NEW text, text = Spelled(k, v),
                    NEW g, g = Put(f, sec, k, text)
             PROVE  /\ IsFile(g) /\ Read(k, g) = v
                    /\ \A j : j # k => Read(j, g) = Read(j, f)
  BY DEF WrittenIn
<1>2. Meaning(k, text) = v /\ (text = NoWord => Unnamed(k, v))
  BY SpelledMeans DEF NoWord, Unnamed
<1>3. \A j, h : Read(j, h) = Meaning(j, GetFileString(h, sec, j))
  BY ReadMeans
<1>1. /\ IsFile(g)
      /\ text = NoWord /\ GetFileString(f, sec, k) = Absent => g = f
      /\ ~(text = NoWord /\ GetFileString(f, sec, k) = Absent) => GetFileString(g, sec, k) = text
      /\ \A j : j # k => GetFileString(g, sec, j) = GetFileString(f, sec, j)
  BY PutAs
<1>4. Read(k, g) = v
  <2>1. CASE text = NoWord /\ GetFileString(f, sec, k) = Absent
    BY <1>1, <1>2, <2>1
  <2>2. CASE ~(text = NoWord /\ GetFileString(f, sec, k) = Absent)
    BY <1>1, <1>2, <1>3, <2>2
  <2> QED BY <2>1, <2>2
<1>5. \A j : j # k => Read(j, g) = Read(j, f)
  BY <1>1, <1>3
<1> QED BY <1>1, <1>4, <1>5

\* saveSettings as a loop over the items
Saving(g, keys, n, ini) ==
    LET k == SaveOrder[n] IN IF k \in keys THEN WrittenIn(ini, k, g[k]) ELSE ini
SaveSteps(f, g, keys, ini) ==
    ini = [n \in DOMAIN ini |-> IF n = 0 THEN f ELSE Saving(g, keys, n, ini[n - 1])]

\* The loop as a function: the file after n settings
LEMMA SaveRuns ==
    ASSUME NEW f, NEW g, NEW keys, NEW n \in Nat
    PROVE  \E ini : DOMAIN ini = 0 .. n /\ SaveSteps(f, g, keys, ini)
<1> DEFINE Runs == {k \in Nat : \E ini : DOMAIN ini = 0 .. k /\ SaveSteps(f, g, keys, ini)}
<1>1. 0 \in Runs
  <2> DEFINE ini == [k \in 0 .. 0 |-> f]
  <2>1. DOMAIN ini = 0 .. 0 /\ SaveSteps(f, g, keys, ini)
    BY DEF SaveSteps
  <2> QED BY <2>1
<1>2. ASSUME NEW k \in Nat, k \in Runs PROVE k + 1 \in Runs
  <2>1. PICK ini : DOMAIN ini = 0 .. k /\ SaveSteps(f, g, keys, ini)
    BY <1>2
  <2> DEFINE last == Saving(g, keys, k + 1, ini[k])
  <2> HIDE DEF last
  <2> DEFINE h == [i \in 0 .. k + 1 |-> IF i = k + 1 THEN last ELSE ini[i]]
  <2>2. \A i \in 0 .. k + 1 : h[i] = IF i = 0 THEN f ELSE Saving(g, keys, i, h[i - 1])
    <3> SUFFICES ASSUME NEW i \in 0 .. k + 1
                 PROVE  h[i] = IF i = 0 THEN f ELSE Saving(g, keys, i, h[i - 1])
      OBVIOUS
    <3>1. CASE i = k + 1
      <4>1. h[i] = last /\ h[i - 1] = ini[k] /\ i # 0
        BY <3>1
      <4> QED BY <3>1, <4>1 DEF last
    <3>2. CASE i = 0
      <4>1. 0 \in 0 .. k /\ h[0] = ini[0]
        OBVIOUS
      <4>2. ini[0] = f
        BY <2>1, <4>1 DEF SaveSteps
      <4> QED BY <3>2, <4>1, <4>2
    <3>3. CASE i \in 1 .. k
      <4>1. i \in 0 .. k /\ i # 0 /\ h[i] = ini[i] /\ h[i - 1] = ini[i - 1]
        BY <3>3
      <4>2. ini[i] = Saving(g, keys, i, ini[i - 1])
        BY <2>1, <4>1 DEF SaveSteps
      <4> QED BY <4>1, <4>2
    <3> QED BY <3>1, <3>2, <3>3
  <2>3. DOMAIN h = 0 .. k + 1 /\ h = [i \in DOMAIN h |-> h[i]]
    OBVIOUS
  <2> HIDE DEF h
  <2>4. SaveSteps(f, g, keys, h)
    BY <2>2, <2>3 DEF SaveSteps
  <2> QED BY <2>3, <2>4
<1> HIDE DEF Runs
<1>3. n \in Runs
  BY <1>1, <1>2, Counting
<1> QED BY <1>3 DEF Runs

\* The settings can be written as they are.
Writable(f, g) ==
    /\ DOMAIN g = Followed /\ g = [k \in Followed |-> g[k]]
    /\ \A k \in Followed : Stable(k, g[k]) /\ (Unnamed(k, g[k]) => Read(k, f) = g[k])

\* What was saved is what is read.
LEMMA SavedReads ==
    ASSUME NEW f, IsFile(f), NEW g, Writable(f, g)
    PROVE  IsFile(Saved(f, g)) /\ Loaded(Saved(f, g)) = g
<1> DEFINE n == Len(SaveOrder)
           ini == SavedUpTo(f, g, Followed)
           done(m) == {SaveOrder[i] : i \in 1 .. m}
           Good == {m \in Nat : m <= n =>
                       /\ IsFile(ini[m])
                       /\ \A k \in Followed : Read(k, ini[m]) = IF k \in done(m) THEN g[k] ELSE Read(k, f)}
<1>1. n \in Nat
  BY DEF SaveOrder
<1>2. /\ DOMAIN ini = 0 .. n
      /\ \A m \in 0 .. n : ini[m] = IF m = 0 THEN f ELSE Saving(g, Followed, m, ini[m - 1])
  <2>1. PICK h : DOMAIN h = 0 .. n /\ SaveSteps(f, g, Followed, h)
    BY <1>1, SaveRuns
  <2>2. h = [m \in 0 .. n |->
                IF m = 0 THEN f
                ELSE LET k == SaveOrder[m] IN
                     IF k \in Followed THEN Put(h[m - 1], "system", k, Spelled(k, g[k])) ELSE h[m - 1]]
    BY <2>1 DEF SaveSteps, Saving, WrittenIn
  <2>3. ini = [m \in 0 .. n |->
                  IF m = 0 THEN f
                  ELSE LET k == SaveOrder[m] IN
                       IF k \in Followed THEN Put(ini[m - 1], "system", k, Spelled(k, g[k]))
                       ELSE ini[m - 1]]
    BY <2>2 DEF SavedUpTo
  <2> HIDE DEF ini, n
  <2> QED BY <2>3 DEF Saving, WrittenIn
<1> HIDE DEF n, ini
<1>3. 0 \in Good
  <2>1. ini[0] = f /\ done(0) = {}
    BY <1>1, <1>2
  <2> HIDE DEF done
  <2> QED BY <2>1
<1>4. ASSUME NEW m \in Nat, m \in Good PROVE m + 1 \in Good
  <2> SUFFICES ASSUME m + 1 <= n
               PROVE  /\ IsFile(ini[m + 1])
                      /\ \A k \in Followed : Read(k, ini[m + 1])
                            = IF k \in done(m + 1) THEN g[k] ELSE Read(k, f)
    OBVIOUS
  <2> DEFINE key == SaveOrder[m + 1]
  <2>1. ini[m + 1] = IF key \in Followed THEN WrittenIn(ini[m], key, g[key]) ELSE ini[m]
    <3>1. m + 1 \in 0 .. n /\ m + 1 # 0 /\ (m + 1) - 1 = m
      BY <1>1
    <3> QED BY <1>2, <3>1 DEF Saving
  <2>2. /\ IsFile(ini[m])
        /\ \A k \in Followed : Read(k, ini[m]) = IF k \in done(m) THEN g[k] ELSE Read(k, f)
    BY <1>1, <1>4
  <2>3. done(m + 1) = done(m) \cup {key}
    <3>1. \A i \in 1 .. m + 1 : i \in 1 .. m \/ i = m + 1
      OBVIOUS
    <3> QED BY <3>1
  <2> HIDE DEF key, done
  <2>4. CASE key \notin Followed
    BY <2>1, <2>2, <2>3, <2>4
  <2>5. CASE key \in Followed
    <3> DEFINE v == g[key]
               old == ini[m]
               next == WrittenIn(old, key, v)
    <3>1. Stable(key, v) /\ (Unnamed(key, v) => Read(key, old) = v) /\ IsFile(old)
      BY <2>2, <2>5 DEF Writable
    <3> HIDE DEF v, old
    <3>2. /\ IsFile(next) /\ Read(key, next) = v
          /\ \A j : j # key => Read(j, next) = Read(j, old)
      BY <3>1, PutKeeps
    <3> HIDE DEF next
    <3>3. ini[m + 1] = next
      BY <2>1, <2>5 DEF next, old, v
    <3> QED BY <2>2, <2>3, <3>2, <3>3 DEF v, old
  <2> QED BY <2>4, <2>5
<1> HIDE DEF Good
<1>5. n \in Good
  BY <1>1, <1>3, <1>4, Counting
<1>6. /\ IsFile(ini[n])
      /\ \A k \in Followed : Read(k, ini[n]) = IF k \in done(n) THEN g[k] ELSE Read(k, f)
  BY <1>1, <1>5 DEF Good
<1>7. Followed \subseteq done(n)
  BY SettingsAssumption DEF n
<1>8. Saved(f, g) = ini[n]
  BY DEF Saved, ini, n
<1> HIDE DEF done
<1>9. Loaded(ini[n]) = [k \in Followed |-> g[k]]
  BY <1>6, <1>7 DEF Loaded
<1> QED BY <1>6, <1>8, <1>9 DEF Writable

\* Comments do not matter to the settings.
LEMMA LoadedSame ==
    ASSUME NEW f, IsFile(f)
    PROVE  /\ IsFile(LoadIniFile(f)) /\ Loaded(LoadIniFile(f)) = Loaded(f)
           /\ \A k : Read(k, LoadIniFile(f)) = Read(k, f)
<1>1. IsFile(LoadIniFile(f)) /\ \A k : Read(k, LoadIniFile(f)) = Read(k, f)
  BY LoadedReads, ReadMeans
<1> QED BY <1>1 DEF Loaded

\* What a save that was cut off leaves is a file.
LEMMA CutIsFile ==
    ASSUME NEW f, IsFile(f), NEW left \in CutFiles(f)
    PROVE  IsFile(left)
<1> DEFINE S == {f[n] : n \in DOMAIN f}
<1>1. f \in Seq(S) /\ Len(f) \in Nat
  BY LinesOfFile DEF IsFile
<1> HIDE DEF S
<1>2. CASE left \in {SubSeq(f, 1, n) : n \in 0 .. Len(f)}
  <2>1. PICK n \in 0 .. Len(f) : left = SubSeq(f, 1, n)
    BY <1>2
  <2>2. left \in Seq(S)
    BY <1>1, <2>1
  <2> QED BY <2>2, FileOfSeq
<1>3. ASSUME NEW n \in 1 .. Len(f), NEW l, left = SubSeq(f, 1, n - 1) \o <<l>>
      PROVE  IsFile(left)
  <2> DEFINE T == S \cup {l}
             part == SubSeq(f, 1, n - 1)
  <2>1. part \in Seq(S)
    BY <1>1
  <2>2. <<l>> \in Seq(T)
    OBVIOUS
  <2> HIDE DEF part
  <2>3. part \in Seq(T)
    BY <2>1
  <2> HIDE DEF T
  <2>4. part \o <<l>> \in Seq(T)
    BY <2>2, <2>3
  <2> QED BY <1>3, <2>4, FileOfSeq DEF part
<1> QED BY <1>2, <1>3 DEF CutFiles

-----------------------------------------------------------------------------
(* The rows of the settings window and the settings they stand for *)

\* The row that setParam asks for a setting
RowOfKey(k) == IF k \in DOMAIN FixedRows THEN FixedRows[k] ELSE <<4, LoaderRow(k)>>

\* Where the rows of two lists are in both
LEMMA Joined ==
    ASSUME NEW S, NEW a \in Seq(S), NEW b \in Seq(S)
    PROVE  /\ a \o b \in Seq(S) /\ Len(a \o b) = Len(a) + Len(b)
           /\ Len(a) \in Nat /\ Len(b) \in Nat
           /\ \A i \in 1 .. Len(a) : (a \o b)[i] = a[i]
           /\ \A i \in 1 .. Len(b) : (a \o b)[Len(a) + i] = b[i]
OBVIOUS

\* setParam knows where the rows of the loader tab are on any console.
LEMMA LoaderRowsFound ==
    ASSUME NEW k \in LoaderKeys
    PROVE  LoaderRows[LoaderRow(k)] = k
<1> DEFINE S == LoaderNames
           a == IF console.flashcart THEN <<"pico">> ELSE <<>>
           b == <<"nightly", "dsonly", "boostcpu", "cardReadDma", "languageOverride">>
           c == IF console.dsi THEN <<"phatCol", "dsiWareUnlaunch">> ELSE <<>>
           d == <<"hbstrap">>
           ab == a \o b
           abc == ab \o c
           f == IF console.flashcart THEN 1 ELSE 0
           e == IF console.dsi THEN 2 ELSE 0
<1>1. a \in Seq(S) /\ Len(a) = f /\ (console.flashcart => a[1] = "pico")
  <2>1. <<>> \in Seq(S) /\ <<"pico">> \in Seq(S) /\ Len(<<>>) = 0 /\ Len(<<"pico">>) = 1
        /\ <<"pico">>[1] = "pico"
    BY DEF LoaderNames
  <2> HIDE DEF S
  <2> QED BY <2>1
<1>2. b \in Seq(S) /\ Len(b) = 5
  BY DEF LoaderNames
<1>3. c \in Seq(S) /\ Len(c) = e /\ (console.dsi => c[1] = "phatCol" /\ c[2] = "dsiWareUnlaunch")
  <2> DEFINE both == <<"phatCol", "dsiWareUnlaunch">>
  <2>1. <<>> \in Seq(S) /\ both \in Seq(S) /\ Len(<<>>) = 0 /\ Len(both) = 2
        /\ both[1] = "phatCol" /\ both[2] = "dsiWareUnlaunch"
    BY DEF LoaderNames
  <2>2. c = IF console.dsi THEN both ELSE <<>>
    OBVIOUS
  <2> HIDE DEF S, both, c
  <2>3. CASE console.dsi
    <3>1. c = both
      BY <2>2, <2>3
    <3> QED BY <2>1, <2>3, <3>1
  <2>4. CASE ~console.dsi
    <3>1. c = <<>>
      BY <2>2, <2>4
    <3> QED BY <2>1, <2>4, <3>1
  <2> QED BY <2>3, <2>4
<1>4. d \in Seq(S) /\ Len(d) = 1 /\ d[1] = "hbstrap"
  BY DEF LoaderNames
<1>5. /\ b[1] = "nightly" /\ b[2] = "dsonly" /\ b[3] = "boostcpu" /\ b[4] = "cardReadDma"
      /\ b[5] = "languageOverride"
  OBVIOUS
<1>6. f \in Nat /\ e \in Nat /\ (console.flashcart => f = 1) /\ (console.dsi => e = 2)
  OBVIOUS
<1>7. LoaderRows = abc \o d
  BY DEF LoaderRows
<1>8. LoaderRow(k) = CASE k = "pico" -> 1 [] k = "nightly" -> f + 1 [] k = "dsonly" -> f + 2
                       [] k = "boostcpu" -> f + 3 [] k = "cardReadDma" -> f + 4
                       [] k = "languageOverride" -> f + 5 [] k = "phatCol" -> f + 6
                       [] k = "dsiWareUnlaunch" -> f + 7 [] k = "hbstrap" -> f + e + 6
  BY DEF LoaderRow
<1> HIDE DEF S, a, b, c, d, ab, abc, f, e
<1>9. ab \in Seq(S) /\ Len(ab) = f + 5
      /\ (\A i \in 1 .. f : ab[i] = a[i]) /\ \A i \in 1 .. 5 : ab[f + i] = b[i]
  <2>1. /\ a \o b \in Seq(S) /\ Len(a \o b) = Len(a) + Len(b)
        /\ \A i \in 1 .. Len(a) : (a \o b)[i] = a[i]
        /\ \A i \in 1 .. Len(b) : (a \o b)[Len(a) + i] = b[i]
    <3>1. a \in Seq(S) /\ b \in Seq(S)
      BY <1>1, <1>2
    <3> QED BY <3>1, Joined
  <2>2. Len(a) = f /\ Len(b) = 5
    BY <1>1, <1>2
  <2> QED BY <2>1, <2>2 DEF ab
<1>10. abc \in Seq(S) /\ Len(abc) = f + 5 + e
       /\ (\A i \in 1 .. f + 5 : abc[i] = ab[i]) /\ \A i \in 1 .. e : abc[f + 5 + i] = c[i]
  <2>1. /\ ab \o c \in Seq(S) /\ Len(ab \o c) = Len(ab) + Len(c)
        /\ \A i \in 1 .. Len(ab) : (ab \o c)[i] = ab[i]
        /\ \A i \in 1 .. Len(c) : (ab \o c)[Len(ab) + i] = c[i]
    <3>1. ab \in Seq(S) /\ c \in Seq(S)
      BY <1>3, <1>9
    <3> QED BY <3>1, Joined
  <2>2. Len(ab) = f + 5 /\ Len(c) = e
    BY <1>3, <1>9
  <2> QED BY <2>1, <2>2 DEF abc
<1>11. (\A i \in 1 .. f + 5 + e : LoaderRows[i] = abc[i]) /\ LoaderRows[f + 5 + e + 1] = d[1]
  <2>1. /\ \A i \in 1 .. Len(abc) : (abc \o d)[i] = abc[i]
        /\ \A i \in 1 .. Len(d) : (abc \o d)[Len(abc) + i] = d[i]
    <3>1. abc \in Seq(S) /\ d \in Seq(S)
      BY <1>4, <1>10
    <3> QED BY <3>1, Joined
  <2>2. Len(abc) = f + 5 + e /\ Len(d) = 1 /\ 1 \in 1 .. 1
    BY <1>4, <1>10
  <2> QED BY <1>7, <2>1, <2>2
<1>12. CASE k = "pico"
  <2>1. console.flashcart /\ f = 1
    BY <1>6, <1>12 DEF LoaderKeys
  <2>2. LoaderRows[1] = a[1]
    BY <1>6, <1>9, <1>10, <1>11, <2>1
  <2> QED BY <1>1, <1>8, <1>12, <2>1, <2>2
<1>13. ASSUME NEW i \in 1 .. 5, k = b[i], LoaderRow(k) = f + i PROVE LoaderRows[LoaderRow(k)] = k
  BY <1>6, <1>9, <1>10, <1>11, <1>13
<1>14. ASSUME NEW i \in 1 .. 2, console.dsi, k = c[i], LoaderRow(k) = f + 5 + i
       PROVE  LoaderRows[LoaderRow(k)] = k
  BY <1>6, <1>10, <1>11, <1>14
<1>15. CASE k \in {"nightly", "dsonly", "boostcpu", "cardReadDma", "languageOverride"}
  <2>1. \E i \in 1 .. 5 : k = b[i] /\ LoaderRow(k) = f + i
    BY <1>5, <1>8, <1>15
  <2> QED BY <1>13, <2>1
<1>16. CASE k \in {"phatCol", "dsiWareUnlaunch"}
  <2>1. console.dsi
    BY <1>16 DEF LoaderKeys
  <2>2. \E i \in 1 .. 2 : k = c[i] /\ LoaderRow(k) = f + 5 + i
    BY <1>3, <1>6, <1>8, <1>16, <2>1
  <2> QED BY <1>14, <2>1, <2>2
<1>17. CASE k = "hbstrap"
  BY <1>4, <1>6, <1>8, <1>11, <1>17
<1> QED BY <1>12, <1>15, <1>16, <1>17 DEF LoaderKeys

\* The names of the fixed rows
LEMMA FixedNames ==
    DOMAIN FixedRows = {"resethotkey", "slot2mode", "viewMode", "scrollSpeed", "icon", "Animation",
                        "Show12hrClock", "showCovers", "playThemeMusic", "fileListType",
                        "showHiddenFiles", "saveext", "savedir", "fileSortMode", "ignorecrc16",
                        "cheats", "saveSlotOverride", "autorunWithLastRom", "overridePluginDefaults"}
BY DEF FixedRows

\* The others are where it looks for them.
LEMMA FixedRowsFound ==
    ASSUME NEW k \in DOMAIN FixedRows
    PROVE  Tabs[FixedRows[k][1]][FixedRows[k][2]] = k
<1>1. CASE k \in {"resethotkey", "slot2mode"}
  BY <1>1 DEF FixedRows, Tabs
<1>2. CASE k \in {"viewMode", "scrollSpeed", "icon", "Animation", "Show12hrClock", "showCovers",
                  "playThemeMusic"}
  BY <1>2 DEF FixedRows, Tabs
<1>3. CASE k \in {"fileListType", "showHiddenFiles", "saveext", "savedir", "fileSortMode"}
  BY <1>3 DEF FixedRows, Tabs
<1>4. CASE k \in {"ignorecrc16", "cheats", "saveSlotOverride", "autorunWithLastRom",
                  "overridePluginDefaults"}
  BY <1>4 DEF FixedRows, Tabs
<1> QED BY <1>1, <1>2, <1>3, <1>4, FixedNames

\* Whichever tab it is on, the row asked for a setting is its own.
LEMMA RowsFound ==
    ASSUME NEW k \in RowKeys
    PROVE  Tabs[RowOfKey(k)[1]][RowOfKey(k)[2]] = k
<1>1. CASE k \in DOMAIN FixedRows
  BY <1>1, FixedRowsFound DEF RowOfKey
<1>2. CASE k \notin DOMAIN FixedRows
  <2>1. k \in LoaderKeys
    BY <1>2 DEF RowKeys
  <2>2. Tabs[4] = LoaderRows
    BY DEF Tabs
  <2> QED BY <1>2, <2>1, <2>2, LoaderRowsFound DEF RowOfKey
<1> QED BY <1>1, <1>2

\* A text that is shown for a value is read back as one that is shown as it.
Faithful(k, i) == Stable(k, ReadAs(k, i)) /\ ShownAs(k, ReadAs(k, i)) = i

\* A row has texts.
LEMMA TextsOfRow == ASSUME NEW k PROVE Texts(k) \in Nat \ {0}
BY DEF Texts

\* A value, one out of range too, is shown as one of the texts.
LEMMA ShownIsText == ASSUME NEW k, NEW v PROVE ShownAs(k, v) \in 0 .. Texts(k) - 1
<1> DEFINE index == CASE k = "scrollSpeed" -> Place(Speeds, v, 0)
                      [] k = "icon" -> Place(<<2, 1>>, v, 2)
                      [] k = "saveSlotOverride" -> v + 1
                      [] OTHER -> v
           n == Texts(k)
<1>1. ShownAs(k, v) = IF index \in 0 .. n - 1 THEN index ELSE 0
  BY DEF ShownAs
<1>2. n \in Nat \ {0}
  BY TextsOfRow
<1> HIDE DEF index, n
<1>3. ShownAs(k, v) \in 0 .. n - 1
  BY <1>1, <1>2
<1> QED BY <1>3 DEF n

\* Every text of every row is such a text.
LEMMA Faithfully ==
    ASSUME NEW k \in DOMAIN FixedRows \cup LoaderNames, NEW i \in 0 .. Texts(k) - 1
    PROVE  Faithful(k, i)
<1> DEFINE v == ReadAs(k, i)
<1> SUFFICES Stable(k, v) /\ ShownAs(k, v) = i
  BY DEF Faithful
<1>0. i \in Nat /\ Texts(k) \in Nat
  BY TextsOfRow
<1>1. CASE k = "scrollSpeed"
  <2>1. Texts(k) = 3 /\ i \in {0, 1, 2}
    BY <1>1 DEF Texts
  <2>2. Speeds[1] = 4 /\ Speeds[2] = 10 /\ Speeds[3] = 16 /\ Len(Speeds) = 3
    BY DEF Speeds
  <2>3. v = Speeds[i + 1]
    BY <1>1 DEF ReadAs
  <2>4. FirstOf({j \in 1 .. Len(Speeds) : Speeds[j] = v}, 1) = i + 1
    <3> DEFINE S == {j \in 1 .. Len(Speeds) : Speeds[j] = v}
    <3>1. S = {i + 1}
      BY <2>1, <2>2, <2>3
    <3> HIDE DEF S
    <3>2. FirstOf(S, 1) \in S
      BY <2>1, <3>1, FirstIs
    <3> QED BY <3>1, <3>2 DEF S
  <2>5. ShownAs(k, v) = i
    <3>1. Place(Speeds, v, 0) = i
      BY <2>1, <2>4 DEF Place
    <3> HIDE DEF v
    <3> QED BY <1>1, <2>1, <3>1 DEF ShownAs
  <2>6. Spellable(k, v)
    <3> DEFINE words == Spellings[k]
    <3>1. words = <<<<16, "slow">>, <<10, "medium">>, <<4, "fast">>>>
      BY <1>1 DEF Spellings
    <3>2. Len(words) = 3 /\ words[1][1] = 16 /\ words[2][1] = 10 /\ words[3][1] = 4
      BY <3>1
    <3> HIDE DEF words
    <3>3. v = words[3 - i][1] /\ 3 - i \in 1 .. Len(words)
      BY <2>1, <2>2, <2>3, <3>2
    <3> QED BY <3>3 DEF Spellable, words
  <2>7. k \notin DOMAIN Bounds
    BY <1>1, KindsApart
  <2> QED BY <2>5, <2>6, <2>7 DEF Stable
<1>2. CASE k = "icon"
  <2>1. Texts(k) = 3 /\ i \in {0, 1, 2}
    BY <1>2 DEF Texts
  <2>2. v = 2 - i
    BY <1>2, <2>1 DEF ReadAs
  <2>3. FirstOf({j \in 1 .. Len(<<2, 1>>) : <<2, 1>>[j] = v}, 3) = i + 1
    <3> DEFINE S == {j \in 1 .. Len(<<2, 1>>) : <<2, 1>>[j] = v}
    <3>1. i # 2 => S = {i + 1}
      BY <2>1, <2>2
    <3>2. i = 2 => S = {}
      BY <2>1, <2>2
    <3> HIDE DEF S
    <3>3. CASE i # 2
      <4>1. FirstOf(S, 3) \in S
        BY <2>1, <3>1, <3>3, FirstIs
      <4> QED BY <3>1, <3>3, <4>1 DEF S
    <3>4. CASE i = 2
      BY <3>2, <3>4 DEF FirstOf, S
    <3> QED BY <3>3, <3>4
  <2>4. Place(<<2, 1>>, v, 2) = i
    BY <2>1, <2>3 DEF Place
  <2>5. ShownAs(k, v) = i
    <3> HIDE DEF v
    <3> QED BY <1>2, <2>1, <2>4 DEF ShownAs
  <2>6. Bounds[k][1] = 0 /\ Bounds[k][2] = 2 /\ k \notin DOMAIN Spellings
    BY <1>2, KindsApart DEF Bounds
  <2> QED BY <2>1, <2>2, <2>5, <2>6 DEF Stable
<1>3. CASE k = "saveSlotOverride"
  <2>1. Texts(k) = 5 /\ v = i - 1
    BY <1>3 DEF Texts, ReadAs
  <2>2. ShownAs(k, v) = i
    BY <1>0, <1>3, <2>1 DEF ShownAs
  <2>3. Bounds[k][1] = -1 /\ Bounds[k][2] = 3 /\ k \notin DOMAIN Spellings
    BY <1>3, KindsApart DEF Bounds
  <2> QED BY <1>0, <2>1, <2>2, <2>3 DEF Stable
<1>4. CASE k \notin {"scrollSpeed", "icon", "saveSlotOverride"}
  <2>1. v = i
    BY <1>4 DEF ReadAs
  <2>2. ShownAs(k, v) = i
    BY <1>0, <1>4, <2>1 DEF ShownAs
  <2>3. k \in DOMAIN Spellings => Spellable(k, v)
    <3> DEFINE words == Spellings[k]
    <3>1. CASE k = "saveext"
      <4>1. words = <<<<1, ".sav">>, <<0, ".nds.sav">>>> /\ Texts(k) = 2
        BY <3>1 DEF Spellings, Texts
      <4>2. Len(words) = 2 /\ words[1][1] = 1 /\ words[2][1] = 0
        BY <4>1
      <4> HIDE DEF words
      <4>3. v = words[2 - i][1] /\ 2 - i \in 1 .. Len(words)
        BY <2>1, <4>1, <4>2
      <4> QED BY <4>3 DEF Spellable, words
    <3>2. CASE k = "viewMode"
      <4>1. words = <<<<0, "list">>, <<1, "icon">>, <<3, "small">>, <<2, "internal">>>>
            /\ Texts(k) = 4
        BY <3>2 DEF Spellings, Texts
      <4>2. Len(words) = 4 /\ words[1][1] = 0 /\ words[2][1] = 1 /\ words[3][1] = 3
            /\ words[4][1] = 2
        BY <4>1
      <4> HIDE DEF words
      <4>3. \E j \in 1 .. Len(words) : v = words[j][1]
        BY <2>1, <4>1, <4>2
      <4> QED BY <4>3 DEF Spellable, words
    <3>3. CASE k = "slot2mode"
      <4>1. words = <<<<1, "gba">>, <<2, "nds">>, <<0, "ask">>>> /\ Texts(k) = 3
        BY <3>3 DEF Spellings, Texts
      <4>2. Len(words) = 3 /\ words[1][1] = 1 /\ words[2][1] = 2 /\ words[3][1] = 0
        BY <4>1
      <4> HIDE DEF words
      <4>3. \E j \in 1 .. Len(words) : v = words[j][1]
        BY <2>1, <4>1, <4>2
      <4> QED BY <4>3 DEF Spellable, words
    <3> QED BY <1>4, <3>1, <3>2, <3>3, KindsApart
  <2>4. k \in DOMAIN Bounds => Bounds[k][1] <= v /\ v <= Bounds[k][2]
    <3>1. CASE k = "hbstrap"
      <4>1. Bounds[k][1] = 0 /\ Bounds[k][2] = 2 /\ Texts(k) = 3
        BY <3>1 DEF Bounds, Texts
      <4> QED BY <2>1, <4>1
    <3>2. CASE k = "fileSortMode"
      <4>1. Bounds[k][1] = 0 /\ Bounds[k][2] = 3 /\ Texts(k) = 4
        BY <3>2 DEF Bounds, Texts
      <4> QED BY <2>1, <4>1
    <3> QED BY <1>4, <3>1, <3>2, KindsApart
  <2> QED BY <2>2, <2>3, <2>4 DEF Stable
<1> QED BY <1>1, <1>2, <1>3, <1>4

\* The rows do not stand for the names, or for safe mode.
LEMMA RowsApart ==
    /\ RowKeys \subseteq DOMAIN FixedRows \cup LoaderNames /\ RowKeys \subseteq Followed
    /\ "uiName" \notin RowKeys /\ "langDirectory" \notin RowKeys /\ "safemode" \notin RowKeys
BY FixedNames DEF RowKeys, LoaderKeys, LoaderNames

-----------------------------------------------------------------------------
(* The settings from their window to the file and back *)

\* A window of settings whose texts are those of its rows
SelectedOK(w) == DOMAIN w.sel = RowKeys /\ \A k \in RowKeys : w.sel[k] \in 0 .. Texts(k) - 1

\* The settings window is open, maybe below that of the languages.
SettingsOpen ==
    \/ screen \in {"settings", "confirm"}
    \/ screen \in {"language", "restartLanguage"} /\ win # NoWin

\* What is in the file was confirmed, and gs() has it; a window that can save
\* it has texts that can be read back, and names none that is empty unless it
\* is so in the file already.
SettledInv ==
    /\ DOMAIN card = {"ini", "there", "inits"} /\ IsFile(card.ini)
    /\ chosen = View(Loaded(card.ini))
    /\ screen \notin {"off", "check"} => gs = UpdateSafeMode(Loaded(card.ini))
    /\ SettingsOpen => gs["safemode"] = 0 /\ SelectedOK(win)
    /\ screen \in {"language", "restartLanguage"} /\ Unnamed("langDirectory", box.mark) =>
          Unnamed("langDirectory", gs["langDirectory"])
    /\ screen = "restartTheme" => ~Unnamed("uiName", box.mark)

\* The settings of the names and of safe mode are followed.
LEMMA NamesFollowed ==
    /\ "uiName" \in Followed /\ "langDirectory" \in Followed /\ "safemode" \in Followed
    /\ Names \subseteq Followed
BY SettingsAssumption DEF Names

\* Safe mode covers its three values and no other.
LEMMA SafeModeCovers ==
    ASSUME NEW g, g = [k \in Followed |-> g[k]]
    PROVE  /\ DOMAIN UpdateSafeMode(g) = Followed
           /\ UpdateSafeMode(g) = [k \in Followed |-> UpdateSafeMode(g)[k]]
           /\ UpdateSafeMode(g)["safemode"] = g["safemode"]
           /\ \A k \in Followed : UpdateSafeMode(g)[k] =
                  IF g["safemode"] # 0 /\ k \in DOMAIN SafeValue THEN SafeValue[k] ELSE g[k]
           /\ g["safemode"] = 0 => UpdateSafeMode(g) = g
<1>1. DOMAIN SafeValue = {"fileListType", "showHiddenFiles", "viewMode"} /\ "safemode" \in Followed
  BY NamesFollowed DEF SafeValue
<1>2. CASE g["safemode"] = 0
  BY <1>2, NamesFollowed DEF UpdateSafeMode
<1>3. CASE g["safemode"] # 0
  <2>1. UpdateSafeMode(g) = [k \in Followed |-> IF k \in DOMAIN SafeValue THEN SafeValue[k] ELSE g[k]]
    BY <1>3 DEF UpdateSafeMode
  <2>2. "safemode" \notin DOMAIN SafeValue
    BY <1>1
  <2> HIDE DEF UpdateSafeMode
  <2> QED BY <1>1, <1>3, <2>1, <2>2
<1> QED BY <1>2, <1>3

\* What safe mode puts in place of a value can be written.
LEMMA SafeIsStable == ASSUME NEW k \in DOMAIN SafeValue PROVE Stable(k, SafeValue[k]) /\ k \notin Names
<1>1. k \in {"fileListType", "showHiddenFiles", "viewMode"}
  BY DEF SafeValue
<1>2. k \notin Names /\ k \notin DOMAIN Bounds
  BY <1>1, KindsApart
<1>3. ASSUME k \in DOMAIN Spellings PROVE Spellable(k, SafeValue[k])
  <2> DEFINE words == Spellings[k]
  <2>1. k = "viewMode"
    BY <1>1, <1>3, KindsApart
  <2>2. words = <<<<0, "list">>, <<1, "icon">>, <<3, "small">>, <<2, "internal">>>>
        /\ SafeValue[k] = 2
    BY <2>1 DEF Spellings, SafeValue
  <2>3. Len(words) = 4 /\ words[4][1] = 2
    BY <2>2
  <2> HIDE DEF words
  <2>4. 4 \in 1 .. Len(words) /\ SafeValue[k] = words[4][1]
    BY <2>2, <2>3
  <2> QED BY <2>4 DEF Spellable, words
<1> QED BY <1>2, <1>3 DEF Stable

\* What a start loads, setting by setting
LEMMA LoadedIs ==
    ASSUME NEW f
    PROVE  /\ DOMAIN Loaded(f) = Followed /\ Loaded(f) = [k \in Followed |-> Loaded(f)[k]]
           /\ \A k \in Followed : Loaded(f)[k] = Read(k, f) /\ Stable(k, Loaded(f)[k])
<1>1. \A k : Stable(k, Read(k, f))
  BY ReadMeans, MeaningIsStable
<1> QED BY <1>1 DEF Loaded

\* What the user is shown, setting by setting
LEMMA ViewIs ==
    ASSUME NEW g
    PROVE  /\ DOMAIN View(g) = Followed /\ View(g) = [k \in Followed |-> View(g)[k]]
           /\ \A k \in Followed : View(g)[k] = IF k \in RowKeys THEN ShownAs(k, g[k]) ELSE g[k]
BY DEF View

\* gs() in the menu: it can be written, and is what the user was left with.
LEMMA InMemory ==
    ASSUME SettledInv, screen \notin {"off", "check"}
    PROVE  /\ Writable(LoadIniFile(card.ini), gs) /\ View(gs) = Confirmed
           /\ gs["safemode"] = 0 => gs = Loaded(card.ini)
<1> DEFINE f == card.ini
           old == Loaded(f)
<1>1. IsFile(f) /\ chosen = View(old) /\ gs = UpdateSafeMode(old)
  BY DEF SettledInv
<1>2. \A k : Read(k, LoadIniFile(f)) = Read(k, f)
  BY <1>1, LoadedSame
<1>3. /\ DOMAIN old = Followed /\ old = [k \in Followed |-> old[k]]
      /\ \A k \in Followed : old[k] = Read(k, f) /\ Stable(k, old[k])
  BY LoadedIs
<1> HIDE DEF old, f
<1>4. /\ DOMAIN gs = Followed /\ gs = [k \in Followed |-> gs[k]] /\ gs["safemode"] = old["safemode"]
      /\ \A k \in Followed :
            gs[k] = IF gs["safemode"] # 0 /\ k \in DOMAIN SafeValue THEN SafeValue[k] ELSE old[k]
      /\ gs["safemode"] = 0 => gs = old
  BY <1>1, <1>3, SafeModeCovers
<1>5. Writable(LoadIniFile(f), gs)
  <2> SUFFICES ASSUME NEW k \in Followed
               PROVE  Stable(k, gs[k]) /\ (Unnamed(k, gs[k]) => Read(k, LoadIniFile(f)) = gs[k])
    BY <1>4 DEF Writable
  <2>1. CASE gs["safemode"] # 0 /\ k \in DOMAIN SafeValue
    BY <1>4, <2>1, SafeIsStable DEF Unnamed
  <2>2. CASE ~(gs["safemode"] # 0 /\ k \in DOMAIN SafeValue)
    BY <1>2, <1>3, <1>4, <2>2
  <2> QED BY <2>1, <2>2
<1>6. View(gs) = Confirmed
  <2>1. Confirmed = [k \in Followed |-> IF gs["safemode"] # 0 /\ k \in DOMAIN SafeValue
                                        THEN View(UpdateSafeMode(gs))[k] ELSE chosen[k]]
    BY DEF Confirmed
  <2>2. ASSUME NEW k \in Followed
        PROVE  View(gs)[k] = IF gs["safemode"] # 0 /\ k \in DOMAIN SafeValue
                             THEN View(UpdateSafeMode(gs))[k] ELSE chosen[k]
    <3>1. UpdateSafeMode(gs)[k] = IF gs["safemode"] # 0 /\ k \in DOMAIN SafeValue THEN SafeValue[k] ELSE gs[k]
      BY <1>4, SafeModeCovers
    <3>2. CASE gs["safemode"] # 0 /\ k \in DOMAIN SafeValue
      BY <1>4, <3>1, <3>2, ViewIs
    <3>3. CASE ~(gs["safemode"] # 0 /\ k \in DOMAIN SafeValue)
      BY <1>1, <1>4, <3>3, ViewIs
    <3> QED BY <3>2, <3>3
  <2>3. View(gs) = [k \in Followed |-> View(gs)[k]]
    BY ViewIs
  <2> QED BY <2>1, <2>2, <2>3
<1> QED BY <1>4, <1>5, <1>6 DEF old, f

\* A name that was chosen can be written with the rest.
LEMMA NameWritable ==
    ASSUME NEW f, NEW g, Writable(f, g), NEW k \in Names, NEW m,
           Unnamed(k, m) => Unnamed(k, g[k])
    PROVE  /\ Writable(f, [g EXCEPT ![k] = m])
           /\ View([g EXCEPT ![k] = m]) = [View(g) EXCEPT ![k] = m]
           /\ [g EXCEPT ![k] = m]["safemode"] = g["safemode"]
           /\ k # "langDirectory" => [g EXCEPT ![k] = m]["langDirectory"] = g["langDirectory"]
<1> DEFINE h == [g EXCEPT ![k] = m]
<1>1. k \in Followed /\ k \in {"uiName", "langDirectory"} /\ k \notin RowKeys
  BY NamesFollowed, RowsApart DEF Names
<1>2. /\ DOMAIN g = Followed /\ g = [j \in Followed |-> g[j]]
      /\ \A j \in Followed : Stable(j, g[j]) /\ (Unnamed(j, g[j]) => Read(j, f) = g[j])
  BY DEF Writable
<1>3. DOMAIN h = Followed /\ h[k] = m /\ (\A j \in Followed : j # k => h[j] = g[j])
      /\ h = [j \in Followed |-> h[j]]
  BY <1>1, <1>2
<1> HIDE DEF h
<1>4. Stable(k, m)
  BY KindsApart DEF Stable
<1>5. Unnamed(k, m) => Read(k, f) = m
  <2>1. Unnamed(k, m) /\ Unnamed(k, g[k]) => g[k] = m
    BY DEF Unnamed
  <2> QED BY <1>1, <1>2, <2>1
<1>6. Writable(f, h)
  BY <1>2, <1>3, <1>4, <1>5 DEF Writable
<1>7. View(h) = [View(g) EXCEPT ![k] = m]
  <2> DEFINE u == View(g)
             v == View(h)
  <2>1. /\ DOMAIN u = Followed /\ u = [j \in Followed |-> u[j]]
        /\ \A j \in Followed : u[j] = IF j \in RowKeys THEN ShownAs(j, g[j]) ELSE g[j]
    BY ViewIs
  <2>2. /\ DOMAIN v = Followed /\ v = [j \in Followed |-> v[j]]
        /\ \A j \in Followed : v[j] = IF j \in RowKeys THEN ShownAs(j, h[j]) ELSE h[j]
    BY ViewIs
  <2> HIDE DEF u, v
  <2>3. \A j \in Followed : v[j] = IF j = k THEN m ELSE u[j]
    BY <1>1, <1>3, <2>1, <2>2
  <2>4. v = [u EXCEPT ![k] = m]
    BY <1>1, <2>1, <2>2, <2>3
  <2> QED BY <2>4 DEF u, v
<1>8. h["safemode"] = g["safemode"] /\ (k # "langDirectory" => h["langDirectory"] = g["langDirectory"])
  BY <1>1, <1>3, NamesFollowed
<1> QED BY <1>6, <1>7, <1>8 DEF h

\* What OK makes of the window can be written, and is what the window showed.
LEMMA WindowWritable ==
    ASSUME SettledInv, screen = "confirm"
    PROVE  /\ Writable(LoadIniFile(card.ini), Apply)
           /\ View(Apply) = [k \in Followed |-> IF k \in DOMAIN win.sel THEN win.sel[k] ELSE chosen[k]]
<1> DEFINE f == LoadIniFile(card.ini)
           g == Apply
<1>1. gs["safemode"] = 0 /\ DOMAIN win.sel = RowKeys
      /\ \A k \in RowKeys : win.sel[k] \in 0 .. Texts(k) - 1
  BY DEF SettledInv, SettingsOpen, SelectedOK
<1>2. Writable(f, gs) /\ gs = Loaded(card.ini) /\ chosen = View(gs)
  BY <1>1, InMemory DEF SettledInv
<1>3. /\ DOMAIN gs = Followed
      /\ \A k \in Followed : Stable(k, gs[k]) /\ (Unnamed(k, gs[k]) => Read(k, f) = gs[k])
  BY <1>2 DEF Writable
<1>4. ASSUME NEW k \in RowKeys
      PROVE  g[k] = ReadAs(k, win.sel[k]) /\ k \in Followed
  <2>1. k \in Followed
    BY RowsApart
  <2>2. g[k] = ReadAs(k, GetItemSelection(Tabs, win, RowOfKey(k)[1], RowOfKey(k)[2]))
    <3>1. g[k] = ReadAs(k, IF k \in DOMAIN FixedRows
                           THEN GetItemSelection(Tabs, win, FixedRows[k][1], FixedRows[k][2])
                           ELSE GetItemSelection(Tabs, win, 4, LoaderRow(k)))
      BY <2>1 DEF Apply
    <3>2. CASE k \in DOMAIN FixedRows
      BY <3>1, <3>2 DEF RowOfKey
    <3>3. CASE k \notin DOMAIN FixedRows
      <4>1. RowOfKey(k)[1] = 4 /\ RowOfKey(k)[2] = LoaderRow(k)
        BY <3>3 DEF RowOfKey
      <4> QED BY <3>1, <3>3, <4>1
    <3> QED BY <3>2, <3>3
  <2>3. GetItemSelection(Tabs, win, RowOfKey(k)[1], RowOfKey(k)[2]) = win.sel[k]
    BY <1>1, RowsFound DEF GetItemSelection
  <2> QED BY <2>1, <2>2, <2>3
<1>5. DOMAIN g = Followed /\ g = [k \in Followed |-> g[k]]
      /\ \A k \in Followed : k \notin RowKeys => g[k] = gs[k]
  BY DEF Apply
<1> HIDE DEF g, f
<1>6. \A k \in RowKeys : Stable(k, g[k]) /\ ShownAs(k, g[k]) = win.sel[k] /\ k \notin Names
  BY <1>1, <1>4, RowsApart, Faithfully DEF Faithful, Names
<1>7. Writable(f, g)
  <2> SUFFICES ASSUME NEW k \in Followed
               PROVE  Stable(k, g[k]) /\ (Unnamed(k, g[k]) => Read(k, f) = g[k])
    BY <1>5 DEF Writable
  <2>1. CASE k \in RowKeys
    BY <1>6, <2>1 DEF Unnamed
  <2>2. CASE k \notin RowKeys
    BY <1>3, <1>5, <2>2
  <2> QED BY <2>1, <2>2
<1>8. View(g) = [k \in Followed |-> IF k \in DOMAIN win.sel THEN win.sel[k] ELSE chosen[k]]
  <2>1. \A k \in Followed : View(g)[k] = IF k \in RowKeys THEN win.sel[k] ELSE chosen[k]
    BY <1>2, <1>5, <1>6, ViewIs
  <2>2. View(g) = [k \in Followed |-> View(g)[k]]
    BY ViewIs
  <2> QED BY <1>1, <2>1, <2>2
<1> QED BY <1>7, <1>8 DEF g, f

\* What the card, gs() and the windows are then
LEMMA SettledThen ==
    ASSUME console' = console, DOMAIN card' = {"ini", "there", "inits"}, IsFile(card'.ini),
           chosen' = View(Loaded(card'.ini)),
           screen' \notin {"off", "check"} => gs' = UpdateSafeMode(Loaded(card'.ini)),
           SettingsOpen' => gs'["safemode"] = 0 /\ SelectedOK(win'),
           screen' \in {"language", "restartLanguage"} /\ Unnamed("langDirectory", box'.mark) =>
              Unnamed("langDirectory", gs'["langDirectory"]),
           screen' = "restartTheme" => ~Unnamed("uiName", box'.mark)
    PROVE  SettledInv'
<1>1. RowKeys' = RowKeys
  BY DEF RowKeys, LoaderKeys
<1>2. View(Loaded(card.ini))' = View(Loaded(card'.ini))
  BY <1>1 DEF View
<1>3. SelectedOK(win)' <=> SelectedOK(win')
  BY <1>1 DEF SelectedOK
<1>4. IsFile(card.ini)' <=> IsFile(card'.ini)
  BY DEF IsFile
<1> QED BY <1>2, <1>3, <1>4 DEF SettledInv

\* saveSettings: all of it, or what a cut leaves, and then the file is what
\* was confirmed.
LEMMA SettingsSaved ==
    ASSUME SettledInv, NEW g, Writable(LoadIniFile(card.ini), g), NEW c, c = View(g),
           NEW next, NEW n, SaveSettings(g, next, c, n)
    PROVE  /\ DOMAIN card' = {"ini", "there", "inits"} /\ IsFile(card'.ini)
           /\ chosen' = View(Loaded(card'.ini))
           /\ \/ screen' = next /\ gs' = UpdateSafeMode(g) /\ Loaded(card'.ini) = g
              \/ screen' = "off"
<1> DEFINE f == LoadIniFile(card.ini)
           saved == Saved(f, g)
<1>1. DOMAIN card = {"ini", "there", "inits"} /\ IsFile(f)
  BY LoadedSame DEF SettledInv
<1>2. IsFile(saved) /\ Loaded(saved) = g
  BY <1>1, SavedReads
<1>3. CASE /\ card' = [card EXCEPT !.ini = saved, !.there = TRUE]
           /\ gs' = UpdateSafeMode(g) /\ screen' = next /\ chosen' = c
  <2> HIDE DEF saved
  <2>1. DOMAIN card' = {"ini", "there", "inits"} /\ card'.ini = saved
    BY <1>1, <1>3
  <2> QED BY <1>2, <1>3, <2>1
<1>4. ASSUME NEW left \in CutFiles(saved), card' = [card EXCEPT !.ini = left, !.there = TRUE],
             chosen' = View(Loaded(left)), screen' = "off"
      PROVE  /\ DOMAIN card' = {"ini", "there", "inits"} /\ IsFile(card'.ini)
             /\ chosen' = View(Loaded(card'.ini))
  <2> HIDE DEF saved
  <2>1. DOMAIN card' = {"ini", "there", "inits"} /\ card'.ini = left
    BY <1>1, <1>4
  <2> QED BY <1>2, <1>4, <2>1, CutIsFile
<1> QED BY <1>3, <1>4 DEF SaveSettings

\* Steps that change no setting
LEMMA SettledStays ==
    ASSUME SettledInv, UNCHANGED <<console, card, gs, chosen>>,
           screen \notin {"off", "check"},
           SettingsOpen' => gs["safemode"] = 0 /\ SelectedOK(win'),
           screen' \in {"language", "restartLanguage"} /\ Unnamed("langDirectory", box'.mark) =>
              Unnamed("langDirectory", gs["langDirectory"]),
           screen' = "restartTheme" => ~Unnamed("uiName", box'.mark)
    PROVE  SettledInv'
BY SettledThen DEF SettledInv

\* Steps that save gs() with a name
LEMMA NameSaved ==
    ASSUME SettledInv, screen \notin {"off", "check"}, console' = console, NEW k \in Names, NEW m,
           Unnamed(k, m) => Unnamed(k, gs[k]),
           NEW next, NEW n,
           SaveSettings([gs EXCEPT ![k] = m], next, [Confirmed EXCEPT ![k] = m], n),
           next \in {"list", "settings", "language", "off"},
           next = "language" => k # "langDirectory",
           screen' = "language" => win' = NoWin /\ (Unnamed("langDirectory", box'.mark) =>
              Unnamed("langDirectory", gs["langDirectory"])),
           screen' = "settings" => gs["safemode"] = 0 /\ SelectedOK(win')
    PROVE  SettledInv'
<1> DEFINE g == [gs EXCEPT ![k] = m]
           c == [Confirmed EXCEPT ![k] = m]
<1>1. Writable(LoadIniFile(card.ini), gs) /\ View(gs) = Confirmed
  BY InMemory
<1>2. /\ Writable(LoadIniFile(card.ini), g) /\ View(g) = [View(gs) EXCEPT ![k] = m]
      /\ g["safemode"] = gs["safemode"]
      /\ k # "langDirectory" => g["langDirectory"] = gs["langDirectory"]
  BY <1>1, NameWritable
<1>3. c = View(g) /\ SaveSettings(g, next, c, n)
  BY <1>1, <1>2
<1> HIDE DEF g, c
<1>4. /\ DOMAIN card' = {"ini", "there", "inits"} /\ IsFile(card'.ini)
      /\ chosen' = View(Loaded(card'.ini))
      /\ \/ screen' = next /\ gs' = UpdateSafeMode(g) /\ Loaded(card'.ini) = g
         \/ screen' = "off"
  BY <1>2, <1>3, SettingsSaved
<1>5. DOMAIN g = Followed /\ g = [j \in Followed |-> g[j]]
  BY <1>2 DEF Writable
<1>6. UpdateSafeMode(g)["safemode"] = g["safemode"]
  BY <1>5, SafeModeCovers
<1>7. UpdateSafeMode(g)["langDirectory"] = g["langDirectory"]
  BY SettingsOfAll
<1> QED BY <1>2, <1>4, <1>6, <1>7, SettledThen DEF SettingsOpen

\* The rows of the window of languages have names, and so do the themes that
\* take the place of one.
LEMMA InsertedNames ==
    ASSUME NEW S
    PROVE  /\ Len(Inserted(NameOrder, S)) \in Nat
           /\ \A i \in 1 .. Len(Inserted(NameOrder, S)) : Inserted(NameOrder, S)[i] \in S
<1> DEFINE V == {NameOrder[i] : i \in DOMAIN NameOrder}
           W == {NameOrder[i] : i \in 1 .. Len(NameOrder)} \cap S
<1>1. NameOrder \in Seq(V)
  BY SettingsAssumption
<1> HIDE DEF V
<1>2. Inserted(NameOrder, S) \in Seq(W)
  BY <1>1, InsertedRows
<1>3. W \subseteq S
  OBVIOUS
<1> HIDE DEF W
<1> QED BY <1>2, <1>3

\* No language on the screen is without a name.
LEMMA LanguagesNamed ==
    ASSUME NEW g, NEW i \in 1 .. Len(InstalledLanguages(g))
    PROVE  ~Unnamed("langDirectory", InstalledLanguages(g)[i])
<1> DEFINE current == g["langDirectory"]
           added == IF current = "" \/ \E l \in LanguageDirs : Same(l, current) THEN {}
                    ELSE {current}
<1>1. InstalledLanguages(g)[i] \in LanguageDirs \cup added
  BY InsertedNames DEF InstalledLanguages
<1>2. "" \notin LanguageDirs \cup added
  BY SettingsAssumption
<1> QED BY <1>1, <1>2 DEF Unnamed

\* No theme that takes the place of a broken one is without a name.
LEMMA ThemesNamed ==
    ASSUME Replacements # <<>>
    PROVE  ~Unnamed("uiName", Replacements[1])
<1> DEFINE S == {t \in DOMAIN ThemeDirs : IsValidTheme(t) /\ ~Same(t, gs["uiName"])}
<1>1. CASE ~Same(gs["uiName"], DefaultTheme) /\ IsValidTheme(DefaultTheme)
  <2>1. Replacements[1] = DefaultTheme
    BY <1>1 DEF Replacements
  <2> QED BY <2>1, SettingsAssumption DEF Unnamed
<1>2. CASE ~(~Same(gs["uiName"], DefaultTheme) /\ IsValidTheme(DefaultTheme))
  <2>1. Replacements = Inserted(NameOrder, S)
    BY <1>2 DEF Replacements
  <2> HIDE DEF Replacements
  <2>2. Replacements[1] \in S
    <3>1. /\ Len(Inserted(NameOrder, S)) \in Nat
          /\ \A i \in 1 .. Len(Inserted(NameOrder, S)) : Inserted(NameOrder, S)[i] \in S
      BY InsertedNames
    <3>2. Len(Replacements) # 0
      <4> DEFINE W == {NameOrder[i] : i \in 1 .. Len(NameOrder)} \cap S
                 V == {NameOrder[i] : i \in DOMAIN NameOrder}
      <4>1. NameOrder \in Seq(V)
        BY SettingsAssumption
      <4> HIDE DEF V
      <4>2. Inserted(NameOrder, S) \in Seq(W)
        BY <4>1, InsertedRows
      <4> HIDE DEF W
      <4> QED BY <2>1, <4>2
    <3> HIDE DEF S
    <3> QED BY <2>1, <3>1, <3>2
  <2> QED BY <2>2, SettingsAssumption DEF Unnamed
<1> QED BY <1>1, <1>2

\* Safe mode, turned off in the file with an editor
LEMMA EditSettles ==
    ASSUME SettledInv, EditFile
    PROVE  SettledInv'
<1> DEFINE f == card.ini
<1>1. /\ screen = "off" /\ screen' = "off" /\ console' = console
      /\ card' = [card EXCEPT !.ini = Put(f, "system", "safemode", Number(0))]
      /\ chosen' = [chosen EXCEPT !["safemode"] = 0]
  BY DEF EditFile, Rest
<1>2. DOMAIN card = {"ini", "there", "inits"} /\ IsFile(f) /\ chosen = View(Loaded(f))
  BY DEF SettledInv
<1> HIDE DEF f
<1>3. PICK k : k = "safemode"
  OBVIOUS
<1>4. k \notin Names /\ k \notin DOMAIN Spellings /\ k \notin DOMAIN Bounds /\ k \in Followed
      /\ k \notin RowKeys
  BY <1>3, KindsApart, NamesFollowed, RowsApart
<1>5. Put(f, "system", "safemode", Number(0)) = WrittenIn(f, k, 0)
  <2>1. Spelled(k, 0) = Number(0)
    BY <1>4 DEF Spelled
  <2> QED BY <1>3, <2>1 DEF WrittenIn
<1> DEFINE g == WrittenIn(f, k, 0)
<1>6. IsFile(g) /\ Read(k, g) = 0 /\ \A j : j # k => Read(j, g) = Read(j, f)
  <2>1. Stable(k, 0) /\ ~Unnamed(k, 0)
    BY <1>4 DEF Stable, Unnamed
  <2> QED BY <1>2, <2>1, PutKeeps
<1> HIDE DEF g
<1>7. DOMAIN card' = {"ini", "there", "inits"} /\ card'.ini = g
  BY <1>1, <1>2, <1>5 DEF g
<1>8. chosen' = View(Loaded(g))
  <2> DEFINE u == View(Loaded(f))
             v == View(Loaded(g))
  <2>1. /\ DOMAIN u = Followed /\ u = [j \in Followed |-> u[j]]
        /\ \A j \in Followed : u[j] = IF j \in RowKeys THEN ShownAs(j, Read(j, f)) ELSE Read(j, f)
    BY ViewIs, LoadedIs
  <2>2. /\ DOMAIN v = Followed /\ v = [j \in Followed |-> v[j]]
        /\ \A j \in Followed : v[j] = IF j \in RowKeys THEN ShownAs(j, Read(j, g)) ELSE Read(j, g)
    BY ViewIs, LoadedIs
  <2>3. chosen' = [u EXCEPT ![k] = 0]
    BY <1>1, <1>2, <1>3
  <2> HIDE DEF u, v
  <2>4. \A j \in Followed : v[j] = IF j = k THEN 0 ELSE u[j]
    BY <1>4, <1>6, <2>1, <2>2
  <2>5. chosen' = v
    BY <1>4, <2>1, <2>2, <2>3, <2>4
  <2> QED BY <2>5 DEF v
<1>9. ~SettingsOpen'
  BY <1>1 DEF SettingsOpen
<1> QED BY <1>1, <1>6, <1>7, <1>8, <1>9, SettledThen

\* The start of the menu
LEMMA StartSettles ==
    ASSUME SettledInv, ShownInv,
           PowerOn \/ CheckInitIni \/ LoadSettings \/ EnsureValidTheme \/ PowerOff
    PROVE  SettledInv'
<1>0. DOMAIN card = {"ini", "there", "inits"} /\ IsFile(card.ini) /\ chosen = View(Loaded(card.ini))
  BY DEF SettledInv
<1>1. CASE PowerOn \/ PowerOff
  <2>1. /\ screen' \in {"check", "off"} /\ UNCHANGED <<console, card, chosen>>
    BY <1>1 DEF PowerOn, PowerOff, Rest
  <2> QED BY <1>0, <2>1, SettledThen DEF SettingsOpen
<1>2. CASE CheckInitIni
  <2>1. /\ screen' = "check" /\ console' = console /\ chosen' = View(Loaded(card'.ini))
        /\ \E inits : \/ card' = [card EXCEPT !.inits = inits]
                      \/ card' = [ini |-> FreshFile, there |-> TRUE, inits |-> inits]
    BY <1>2 DEF CheckInitIni
  <2>2. IsFile(FreshFile)
    BY SettingsAssumption DEF IsFile
  <2>3. DOMAIN card' = {"ini", "there", "inits"} /\ card'.ini \in {card.ini, FreshFile}
    BY <1>0, <2>1
  <2> QED BY <1>0, <2>1, <2>2, <2>3, SettledThen DEF SettingsOpen
<1>3. CASE LoadSettings
  <2>1. /\ screen' = "theme" /\ UNCHANGED <<console, card, chosen>>
        /\ gs' = UpdateSafeMode(Loaded(LoadIniFile(card.ini)))
    BY <1>3 DEF LoadSettings, Rest
  <2>2. Loaded(LoadIniFile(card.ini)) = Loaded(card.ini)
    BY <1>0, LoadedSame
  <2> QED BY <1>0, <2>1, <2>2, SettledThen DEF SettingsOpen
<1>4. CASE EnsureValidTheme
  <2> DEFINE theme == Replacements[1]
  <2>1. /\ screen = "theme" /\ console' = console /\ win' = NoWin
        /\ box' = IF first THEN LanguageBox(gs) ELSE NoBox
    BY <1>4 DEF EnsureValidTheme, Rest, ShownInv
  <2>2. AfterStart \in {"language", "list"} /\ (AfterStart = "language" => first)
    BY DEF AfterStart
  <2>3. first => box'.mark = gs["langDirectory"]
    BY <2>1 DEF LanguageBox
  <2>4. CASE screen' \in {AfterStart, "noTheme"} /\ UNCHANGED <<card, gs, chosen>>
    BY <2>1, <2>2, <2>3, <2>4, SettledStays DEF SettingsOpen
  <2>5. CASE /\ Replacements # <<>>
             /\ SaveSettings([gs EXCEPT !["uiName"] = theme], AfterStart,
                             [Confirmed EXCEPT !["uiName"] = theme], 0)
    <3>1. PICK k \in Names : k = "uiName"
      BY KindsApart
    <3>2. ~Unnamed(k, theme)
      BY <2>5, <3>1, ThemesNamed
    <3>3. SaveSettings([gs EXCEPT ![k] = theme], AfterStart, [Confirmed EXCEPT ![k] = theme], 0)
      BY <2>5, <3>1
    <3>4. screen' \in {AfterStart, "off"} /\ k # "langDirectory"
      BY <2>5, <3>1 DEF SaveSettings
    <3> HIDE DEF theme
    <3> QED BY <2>1, <2>2, <2>3, <3>2, <3>3, <3>4, NameSaved
  <2> QED BY <1>4, <2>4, <2>5 DEF EnsureValidTheme
<1> QED BY <1>1, <1>2, <1>3, <1>4

\* Keys and pen leave the texts those of the rows.
LEMMA MovedTexts ==
    ASSUME NEW tabs, NEW w, DOMAIN w = {"sel", "tab", "top", "focus"},
           NEW u, u \in Moved(tabs, w)
    PROVE  u.sel = w.sel
<1>1. ASSUME NEW v, DOMAIN v = {"sel", "tab", "top", "focus"}
      PROVE  ShowTab(tabs, v).sel = v.sel
  BY <1>1 DEF ShowTab
<1>2. ASSUME NEW row PROVE FocusItem(tabs, w, row).sel = w.sel
  BY DEF FocusItem
<1>3. ASSUME NEW tab PROVE SwitchTab(tabs, w, tab).sel = w.sel
  <2> DEFINE v == [w EXCEPT !.tab = tab]
  <2>1. DOMAIN v = {"sel", "tab", "top", "focus"} /\ v.sel = w.sel
    OBVIOUS
  <2>2. SwitchTab(tabs, w, tab) = ShowTab(tabs, v)
    BY DEF SwitchTab
  <2> HIDE DEF v
  <2> QED BY <1>1, <2>1, <2>2
<1>4. ASSUME NEW row PROVE TouchRow(w, row).sel = w.sel
  BY DEF TouchRow
<1> QED BY <1>2, <1>3, <1>4 DEF Moved, OnUIKeyUP, OnUIKeyDOWN

\* The settings window
LEMMA SettingsSettle ==
    ASSUME SettledInv, ShownInv,
           \/ OpenSettings \/ MoveInSettings \/ TurnSetting \/ AskToSave
           \/ OpenLanguages \/ CloseSettings \/ AnswerSave
    PROVE  SettledInv'
<1>1. screen = "settings" => DOMAIN win = {"sel", "tab", "top", "focus"}
  BY DEF ShownInv, WindowOK
<1>2. screen \in {"settings", "confirm"} => gs["safemode"] = 0 /\ SelectedOK(win)
  BY DEF SettledInv, SettingsOpen
<1>3. ASSUME screen = "settings", screen' \in {"settings", "confirm"}, SelectedOK(win'),
             UNCHANGED <<console, card, gs, chosen>>
      PROVE  SettledInv'
  BY <1>2, <1>3, SettledStays
<1>4. CASE OpenSettings
  <2> DEFINE sel == [k \in RowKeys |-> ShownAs(k, gs[k])]
  <2>1. /\ screen = "list" /\ screen' = "settings" /\ UNCHANGED <<console, card, gs, chosen>>
        /\ gs["safemode"] = 0 /\ win' = NewWindow(Tabs, sel)
    BY <1>4 DEF OpenSettings, MayChange, Rest
  <2>2. NewWindow(Tabs, sel).sel = sel
    <3> HIDE DEF sel
    <3> QED BY DEF NewWindow, ShowTab
  <2>3. SelectedOK(win')
    BY <2>1, <2>2, ShownIsText DEF SelectedOK
  <2> HIDE DEF sel
  <2> QED BY <2>1, <2>3, SettledStays
<1>5. CASE MoveInSettings
  <2>1. /\ screen = "settings" /\ screen' = "settings" /\ UNCHANGED <<console, card, gs, chosen>>
        /\ win' \in Moved(Tabs, win)
    BY <1>5 DEF MoveInSettings, InSettings, Rest
  <2>2. win'.sel = win.sel
    BY <1>1, <2>1, MovedTexts
  <2> QED BY <1>2, <1>3, <2>1, <2>2 DEF SelectedOK
<1>6. CASE TurnSetting
  <2> DEFINE texts == [k \in DOMAIN win.sel |-> Texts(k)]
  <2>1. /\ screen = "settings" /\ screen' = "settings" /\ UNCHANGED <<console, card, gs, chosen>>
        /\ win' \in Turned(Tabs, win, texts)
    BY <1>6 DEF TurnSetting, InSettings, Rest
  <2> HIDE DEF texts
  <2>0. PICK row \in Visible(Tabs, win) \cup ({win.focus} \ {0}) :
           win' \in (LET k == Tabs[win.tab][row] IN
                     IF k \notin DOMAIN win.sel THEN {}
                     ELSE Turn(TouchRow(win, row), k, 1, texts[k])
                            \cup Turn(TouchRow(win, row), k, -1, texts[k]))
    BY <2>1 DEF Turned
  <2>2. PICK k \in DOMAIN win.sel, step \in {-1, 1} :
           win' \in Turn(TouchRow(win, row), k, step, texts[k])
    BY <2>0
  <2> DEFINE w == TouchRow(win, row)
  <2>3. DOMAIN w = {"sel", "tab", "top", "focus"} /\ w.sel = win.sel
    BY <1>1, <2>1 DEF TouchRow
  <2> HIDE DEF w
  <2>4. /\ 0 <= w.sel[k] + step /\ w.sel[k] + step < texts[k]
        /\ win' = [w EXCEPT !.sel[k] = @ + step]
    BY <2>2 DEF Turn, w
  <2>5. win'.sel = [win.sel EXCEPT ![k] = @ + step]
    BY <2>3, <2>4
  <2>6. DOMAIN win.sel = RowKeys /\ (\A j \in RowKeys : win.sel[j] \in 0 .. Texts(j) - 1)
        /\ texts[k] = Texts(k)
    BY <1>2, <2>1 DEF SelectedOK, texts
  <2>7. win.sel[k] + step \in 0 .. Texts(k) - 1
    <3> DEFINE i == win.sel[k]
               n == Texts(k)
    <3>1. i \in 0 .. n - 1 /\ n \in Nat
      BY <2>6, TextsOfRow
    <3>2. 0 <= i + step /\ i + step < n
      BY <2>3, <2>4, <2>6
    <3> HIDE DEF i, n
    <3>3. i + step \in 0 .. n - 1
      BY <3>1, <3>2
    <3> QED BY <3>3 DEF i, n
  <2>8. SelectedOK(win')
    <3> DEFINE v == win.sel[k] + step
    <3>1. win'.sel = [win.sel EXCEPT ![k] = v] /\ v \in 0 .. Texts(k) - 1
      BY <2>5, <2>7
    <3> HIDE DEF v
    <3> QED BY <2>6, <3>1 DEF SelectedOK
  <2> QED BY <1>3, <2>1, <2>8
<1>7. CASE AskToSave
  <2>1. /\ screen = "settings" /\ screen' = "confirm" /\ UNCHANGED <<console, card, gs, chosen>>
        /\ \E focus \in {win.focus, 0} : win' = [win EXCEPT !.focus = focus]
    BY <1>7 DEF AskToSave, Rest
  <2>2. win'.sel = win.sel
    BY <1>1, <2>1
  <2> QED BY <1>2, <1>3, <2>1, <2>2 DEF SelectedOK
<1>8. CASE OpenLanguages
  <2>1. /\ screen = "settings" /\ screen' = "language" /\ box' = LanguageBox(gs)
        /\ UNCHANGED <<console, card, gs, win, chosen>>
    BY <1>8 DEF OpenLanguages, Rest
  <2>2. box'.mark = gs["langDirectory"]
    BY <2>1 DEF LanguageBox
  <2>3. gs["safemode"] = 0 /\ SelectedOK(win')
    BY <1>2, <2>1 DEF SelectedOK
  <2> QED BY <2>1, <2>2, <2>3, SettledStays
<1>9. CASE CloseSettings
  <2>1. /\ screen = "settings" /\ screen' = "list" /\ UNCHANGED <<console, card, gs, chosen>>
    BY <1>9 DEF CloseSettings, Rest
  <2> QED BY <2>1, SettledStays DEF SettingsOpen
<1>10. CASE AnswerSave
  <2> DEFINE c == [k \in Followed |-> IF k \in DOMAIN win.sel THEN win.sel[k] ELSE chosen[k]]
  <2>1. screen = "confirm" /\ console' = console
    BY <1>10 DEF AnswerSave, Rest
  <2>2. CASE screen' = "settings" /\ UNCHANGED <<win, card, gs, chosen, spent>>
    <3>1. SelectedOK(win')
      BY <1>2, <2>1, <2>2 DEF SelectedOK
    <3> QED BY <1>2, <2>1, <2>2, <3>1, SettledStays
  <2>3. CASE SaveSettings(Apply, "list", c, 0)
    <3>1. Writable(LoadIniFile(card.ini), Apply) /\ c = View(Apply)
      BY <2>1, WindowWritable
    <3> HIDE DEF c
    <3>2. /\ DOMAIN card' = {"ini", "there", "inits"} /\ IsFile(card'.ini)
          /\ chosen' = View(Loaded(card'.ini))
          /\ \/ screen' = "list" /\ gs' = UpdateSafeMode(Apply) /\ Loaded(card'.ini) = Apply
             \/ screen' = "off"
      BY <2>3, <3>1, SettingsSaved
    <3> QED BY <2>1, <3>2, SettledThen DEF SettingsOpen
  <2> QED BY <1>10, <2>2, <2>3 DEF AnswerSave
<1> QED BY <1>4, <1>5, <1>6, <1>7, <1>8, <1>9, <1>10

\* The windows of languages and of themes
LEMMA BoxSettles ==
    ASSUME SettledInv, ShownInv,
           \/ OpenThemes \/ PressRow \/ SelectRow \/ FoldRow
           \/ CancelBox \/ ConfirmLanguage \/ ConfirmTheme \/ DeclineRestart
    PROVE  SettledInv'
<1>1. /\ screen = "language" /\ win # NoWin => gs["safemode"] = 0 /\ SelectedOK(win)
      /\ screen = "restartLanguage" /\ win # NoWin => gs["safemode"] = 0 /\ SelectedOK(win)
      /\ screen = "language" /\ Unnamed("langDirectory", box.mark) =>
            Unnamed("langDirectory", gs["langDirectory"])
      /\ screen \in {"list", "themes", "restartTheme"} => win = NoWin
  BY DEF SettledInv, SettingsOpen, ShownInv
<1>2. Below \in {"list", "settings"} /\ (Below = "settings" => win # NoWin)
  BY DEF Below
<1>3. ASSUME screen \in {"language", "themes", "restartLanguage", "restartTheme"},
             screen' = Below, UNCHANGED <<console, card, gs, win, chosen>>
      PROVE  SettledInv'
  BY <1>1, <1>2, <1>3, SettledStays DEF SettingsOpen, SelectedOK
<1>4. ASSUME NEW b, Turns(b), Unnamed("langDirectory", b.mark) => Unnamed("langDirectory", box.mark)
                                  \/ screen = "themes"
      PROVE  SettledInv'
  <2>1. /\ screen' = screen /\ box' = b /\ screen \in {"language", "themes"}
        /\ UNCHANGED <<console, card, gs, win, chosen>>
    BY <1>4 DEF Turns, Choosing, Rest
  <2> QED BY <1>1, <1>4, <2>1, SettledStays DEF SettingsOpen, SelectedOK
<1>5. CASE OpenThemes
  <2>1. screen = "list" /\ screen' = "themes" /\ UNCHANGED <<console, card, gs, win, chosen>>
    BY <1>5 DEF OpenThemes, MayChange, Rest
  <2> QED BY <2>1, SettledStays DEF SettingsOpen
<1>6. Choosing => DOMAIN box = {"list", "mark", "open"}
  BY InTheBox
<1>7. CASE PressRow
  <2>1. PICK step \in {-1, 1} : Turns([box EXCEPT !.list = Picked(@, @.selected + step)])
    BY <1>7 DEF PressRow
  <2>2. Choosing
    BY <2>1 DEF Turns
  <2>3. [box EXCEPT !.list = Picked(@, @.selected + step)].mark = box.mark
    BY <1>6, <2>2
  <2> QED BY <1>4, <2>1, <2>3
<1>8. ASSUME screen = "language", BoxRows # <<>>
      PROVE  ~Unnamed("langDirectory", RowAt)
  <2>1. BoxRows = InstalledLanguages(gs) /\ ListOK(box.list, Len(BoxRows))
    BY <1>8, InTheBox DEF Choosing
  <2>2. Len(InstalledLanguages(gs)) \in Nat
    BY LanguagesCount
  <2>3. Len(BoxRows) # 0
    <3> DEFINE V == {NameOrder[i] : i \in DOMAIN NameOrder}
               added == IF gs["langDirectory"] = "" \/ \E l \in LanguageDirs : Same(l, gs["langDirectory"])
                        THEN {} ELSE {gs["langDirectory"]}
               S == LanguageDirs \cup added
               W == {NameOrder[i] : i \in 1 .. Len(NameOrder)} \cap S
    <3>1. NameOrder \in Seq(V)
      BY SettingsAssumption
    <3>2. InstalledLanguages(gs) = Inserted(NameOrder, S)
      BY DEF InstalledLanguages
    <3> HIDE DEF V, S
    <3>3. Inserted(NameOrder, S) \in Seq(W)
      BY <3>1, InsertedRows
    <3> HIDE DEF W
    <3> QED BY <1>8, <2>1, <3>2, <3>3
  <2>4. box.list.selected \in Nat /\ box.list.selected < box.list.rows
        /\ box.list.rows = Len(BoxRows)
    BY <2>1, <2>2, <2>3 DEF ListOK, SelectedIsShown, Lists
  <2>5. box.list.selected + 1 \in 1 .. Len(InstalledLanguages(gs))
    BY <2>1, <2>2, <2>4
  <2> QED BY <2>1, <2>5, LanguagesNamed DEF RowAt
<1>9. ASSUME Turns([box EXCEPT !.mark = RowAt]), BoxRows # <<>> PROVE SettledInv'
  <2>1. Choosing
    BY <1>9 DEF Turns
  <2>2. [box EXCEPT !.mark = RowAt].mark = RowAt
    BY <1>6, <2>1
  <2>3. ~Unnamed("langDirectory", RowAt) \/ screen = "themes"
    BY <1>8, <1>9, <2>1 DEF Choosing
  <2> QED BY <1>4, <1>9, <2>2, <2>3
<1>10. ASSUME NEW folder, NEW open, screen # "language", Turns(Reopened(folder, open))
       PROVE  SettledInv'
  <2>1. screen = "themes"
    BY <1>10 DEF Turns, Choosing
  <2> QED BY <1>4, <1>10, <2>1
<1>11. CASE SelectRow
  BY <1>9, <1>10, <1>11 DEF SelectRow
<1>12. CASE FoldRow
  BY <1>10, <1>12 DEF FoldRow
<1>13. CASE CancelBox \/ DeclineRestart
  BY <1>3, <1>13 DEF CancelBox, DeclineRestart, Choosing, Rest
<1>14. CASE ConfirmLanguage
  <2> DEFINE name == IF BoxRows = <<>> THEN box.mark ELSE RowAt
  <2>1. /\ screen = "language" /\ UNCHANGED <<console, card, gs, win, chosen>>
        /\ \/ screen' = "restartLanguage" /\ box' = [box EXCEPT !.mark = name]
           \/ screen' = Below
    BY <1>14 DEF ConfirmLanguage, Rest
  <2>2. CASE screen' = "restartLanguage" /\ box' = [box EXCEPT !.mark = name]
    <3>1. box'.mark = name
      BY <1>6, <2>1, <2>2 DEF Choosing
    <3>2. Unnamed("langDirectory", name) => Unnamed("langDirectory", gs["langDirectory"])
      BY <1>1, <1>8, <2>1
    <3> HIDE DEF name
    <3> QED BY <1>1, <2>1, <2>2, <3>1, <3>2, SettledStays DEF SettingsOpen, SelectedOK
  <2> QED BY <1>3, <2>1, <2>2
<1>15. CASE ConfirmTheme
  <2>1. /\ screen = "themes" /\ UNCHANGED <<console, card, gs, win, chosen>>
        /\ \/ screen' = "restartTheme" /\ box.mark # "" /\ box' = box
           \/ screen' = "list"
    BY <1>15 DEF ConfirmTheme, Rest
  <2>2. box.mark # "" => ~Unnamed("uiName", box.mark)
    BY DEF Unnamed
  <2> QED BY <2>1, <2>2, SettledStays DEF SettingsOpen
<1> QED BY <1>5, <1>7, <1>11, <1>12, <1>13, <1>14, <1>15

\* The name that was chosen is saved.
LEMMA RestartSettles ==
    ASSUME SettledInv, ShownInv, Restart
    PROVE  SettledInv'
<1>1. /\ screen \in {"restartLanguage", "restartTheme"} /\ console' = console
      /\ Below \in {"list", "settings"} /\ (Below = "settings" => win # NoWin)
  BY DEF Restart, Below
<1>2. PICK k \in Names : k = IF screen = "restartTheme" THEN "uiName" ELSE "langDirectory"
  BY KindsApart
<1>3. Unnamed(k, box.mark) => Unnamed(k, gs[k])
  BY <1>1, <1>2 DEF SettledInv
<1>4. PICK next \in {Below, "off"}, n \in {0, 1} :
         /\ SaveSettings([gs EXCEPT ![k] = box.mark], next, [Confirmed EXCEPT ![k] = box.mark], n)
         /\ win' = IF screen' = "off" THEN NoWin ELSE win
  BY <1>2 DEF Restart
<1>5. screen' \in {next, "off"}
  BY <1>4 DEF SaveSettings
<1>6. screen = "restartTheme" => win = NoWin
  BY DEF ShownInv
<1>7. screen' = "settings" => gs["safemode"] = 0 /\ SelectedOK(win')
  BY <1>1, <1>4, <1>5, <1>6 DEF SettledInv, SettingsOpen, SelectedOK
<1> QED BY <1>1, <1>3, <1>4, <1>5, <1>7, NameSaved

\* The windows of games leave the settings alone.
LEMMA GamesSettle ==
    ASSUME SettledInv, GamesInv,
           \/ DrawRows \/ EnterDir \/ CloseFileInfo \/ PressSaveType \/ TurnGame
           \/ CancelGame \/ ConfirmGame
           \/ \E f \in DOMAIN RomFiles : ShowFileInfo(f) \/ LaunchGame(f)
           \/ PressCheats \/ MoveInCheats \/ LeftOfFirst \/ SelectCheat \/ SelectNothing
           \/ DeselectAll \/ CancelCheats \/ GenerateCheats
    PROVE  SettledInv'
<1>1. rom.cheats.from \in {"list", "info"}
  BY DEF GamesInv, Shapes
<1>2. ASSUME UNCHANGED <<console, card, chosen>>,
             screen \in {"list", "info", "game", "cheats"},
             \/ screen' \in {"list", "info", "game", "cheats", "lost"} /\ gs' = gs
             \/ screen' = "off"
      PROVE  SettledInv'
  <2>1. DOMAIN card = {"ini", "there", "inits"} /\ IsFile(card.ini) /\ chosen = View(Loaded(card.ini))
        /\ gs = UpdateSafeMode(Loaded(card.ini))
    BY <1>2 DEF SettledInv
  <2> QED BY <1>2, <2>1, SettledThen DEF SettingsOpen
<1>3. ASSUME NEW info, NEW shown, NEW next \in {"list", "info"}, UpdateList(info, shown, next)
      PROVE  \/ screen' \in {"list", "info"} /\ gs' = gs
             \/ screen' = "off"
  BY <1>3 DEF UpdateList, Off, Cut
<1>4. CASE DrawRows \/ EnterDir \/ CloseFileInfo \/ PressSaveType \/ TurnGame \/ CancelGame
  <2>1. /\ UNCHANGED <<console, card, chosen, gs>> /\ screen \in {"list", "info", "game"}
        /\ screen' \in {"list", "info", "game"}
    BY <1>4 DEF DrawRows, EnterDir, CloseFileInfo, PressSaveType, TurnGame, CancelGame, MayOpen,
                InMenu, Menu
  <2> QED BY <1>2, <2>1
<1>5. CASE ConfirmGame
  <2>1. UNCHANGED <<console, card, chosen>> /\ screen = "game"
        /\ \E info, shown : UpdateList(info, shown, "info")
    BY <1>5 DEF ConfirmGame, Menu
  <2> QED BY <1>2, <1>3, <2>1
<1>6. ASSUME NEW f \in DOMAIN RomFiles, ShowFileInfo(f) PROVE SettledInv'
  BY <1>2, <1>6 DEF ShowFileInfo, MayOpen, InMenu, Menu
<1>7. ASSUME NEW f \in DOMAIN RomFiles, LaunchGame(f) PROVE SettledInv'
  <2>1. UNCHANGED <<console, card, chosen>> /\ screen = "list"
        /\ \E info, shown : UpdateList(info, shown, "list")
    BY <1>7 DEF LaunchGame, MayOpen, Menu
  <2> QED BY <1>2, <1>3, <2>1
<1>8. CASE PressCheats
  BY <1>2, <1>8 DEF PressCheats, ShowCheats, MayOpen, InMenu, Menu
<1>9. CASE MoveInCheats \/ LeftOfFirst \/ SelectCheat \/ SelectNothing \/ DeselectAll
  <2>1. /\ screen = "cheats" /\ screen' \in {"cheats", "lost"}
        /\ UNCHANGED <<console, card, chosen, gs>>
    BY <1>9 DEF MoveInCheats, LeftOfFirst, SelectCheat, SelectNothing, DeselectAll,
                PickCheat, InCheats, InMenu, Menu
  <2> QED BY <1>2, <2>1
<1>10. CASE CancelCheats
  BY <1>1, <1>2, <1>10 DEF CancelCheats, InMenu, Menu
<1>11. CASE GenerateCheats
  <2>1. screen = "cheats" /\ UNCHANGED <<console, card, chosen>>
        /\ ((screen' = rom.cheats.from /\ gs' = gs) \/ screen' = "off")
    BY <1>11 DEF GenerateCheats, Cut, Off, Menu
  <2> QED BY <1>1, <1>2, <2>1
<1> QED BY <1>4, <1>5, <1>6, <1>7, <1>8, <1>9, <1>10, <1>11

\* Every step leaves the file, gs() and what was confirmed in agreement.
LEMMA SettledStep ==
    ASSUME SettledInv, ShownInv, GamesInv, [MenuNext]_menuVars
    PROVE  SettledInv'
<1>1. CASE Next
  BY <1>1, StartSettles, EditSettles, SettingsSettle, BoxSettles, RestartSettles DEF Next
<1>2. CASE UNCHANGED menuVars
  <2>1. UNCHANGED <<console, card, gs, screen, win, box, chosen>>
    BY <1>2 DEF menuVars, vars
  <2>2. /\ DOMAIN card = {"ini", "there", "inits"} /\ IsFile(card.ini)
        /\ chosen = View(Loaded(card.ini))
        /\ screen \notin {"off", "check"} => gs = UpdateSafeMode(Loaded(card.ini))
        /\ SettingsOpen => gs["safemode"] = 0 /\ SelectedOK(win)
        /\ screen \in {"language", "restartLanguage"} /\ Unnamed("langDirectory", box.mark) =>
              Unnamed("langDirectory", gs["langDirectory"])
        /\ screen = "restartTheme" => ~Unnamed("uiName", box.mark)
    BY DEF SettledInv
  <2>3. SettingsOpen' <=> SettingsOpen
    BY <2>1 DEF SettingsOpen
  <2>4. SelectedOK(win') <=> SelectedOK(win)
    BY <2>1
  <2> QED BY <2>1, <2>2, <2>3, <2>4, SettledThen
<1>3. ASSUME MenuNext, ~Next PROVE SettledInv'
  BY <1>3, GamesSettle DEF MenuNext
<1> QED BY <1>1, <1>2, <1>3

\* So they are before the power is first switched on.
LEMMA SettledInitial == Init => SettledInv
<1> SUFFICES ASSUME Init PROVE SettledInv
  OBVIOUS
<1>1. PICK i \in Installed : console = i.console /\ card = i.card
  BY DEF Init
<1>2. DOMAIN card = {"ini", "there", "inits"} /\ IsFile(card.ini)
  <2>1. \A f \in {FreshFile} \cup {j.card.ini : j \in Installed} : IsFile(f)
    BY SettingsAssumption DEF IsFile
  <2>2. DOMAIN i.card = {"ini", "there", "inits"}
    BY SettingsAssumption
  <2>3. IsFile(i.card.ini)
    BY <2>1
  <2> QED BY <1>1, <2>2, <2>3
<1>3. chosen = View(Loaded(LoadIniFile(card.ini))) /\ screen = "off"
  BY DEF Init
<1>4. Loaded(LoadIniFile(card.ini)) = Loaded(card.ini)
  BY <1>2, LoadedSame
<1> QED BY <1>2, <1>3, <1>4 DEF SettledInv, SettingsOpen

\* What was confirmed last is what the file gives at the next start, and what
\* gs() has in the menu (safe mode only covers its three values): for any file
\* on the card and of a new package, with comments and broken lines and items
\* given twice, for any languages and themes, whatever the console has rows
\* for, and wherever the power goes off in a save.
THEOREM RomInfoSettingsKept == MenuSpec => []SettingsKept
<1>1. MenuInit => SettledInv /\ ShownInv
  BY SettledInitial, SettingsOfAll DEF MenuInit, Init, ShownInv, Choosing
<1>2. SettledInv => SettingsKept
  <2> SUFFICES ASSUME SettledInv PROVE SettingsKept
    OBVIOUS
  <2>1. IsFile(card.ini) /\ Loaded(LoadIniFile(card.ini)) = Loaded(card.ini)
    BY LoadedSame DEF SettledInv
  <2> QED BY <2>1 DEF SettledInv, SettingsKept
<1>3. GamesInv /\ FreshInv /\ ShownInv /\ SettledInv /\ [MenuNext]_menuVars
         => (GamesInv /\ FreshInv /\ ShownInv /\ SettledInv)'
  BY GamesStep, ShownStep, SettledStep
<1> QED BY <1>1, <1>2, <1>3, GamesInitial, PTL DEF MenuSpec
=============================================================================
