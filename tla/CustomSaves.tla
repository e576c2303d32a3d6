----------------------------- MODULE CustomSaves -----------------------------
(***************************************************************************)
(* The settings a game has of its own (SAVE_INFO_EX, savemngr.h) and the   *)
(* list of them, in memory and on the card (savemngr.cpp).  A game is what *)
(* the first 18 bytes of an entry say of it: title, code and checksum.     *)
(***************************************************************************)
EXTENDS Integers, Sequences

CONSTANTS Games,       \* titles, codes and checksums of the ROMs met
          RomList      \* the type of save the table of known ROMs has for a game

(* Flags that are on, off or left to the menu: one bit of its own, one for *)
(* "global".  The bits of the first four are in the older byte of flags,   *)
(* all others and the rest of the entry came with flags2.                  *)
OldFlags == {"downloadplay", "softreset", "cheat", "dma"}
Flags == OldFlags \cup {"sdsave", "loader", "nightly", "dsmode", "boostcpu", "cardreaddma"}

DisplayTypes == <<"UNKNOWN", "NOSAVE", "4K", "64K", "512K", "1M", "2M", "4M", "8M", "16M",
                  "32M", "64M">>
Types == {DisplayTypes[i] : i \in 1 .. Len(DisplayTypes)} \cup {"NEW", "AUTO"}

Infos == [game : Games, type : Types, own : SUBSET Flags, global : SUBSET Flags,
          slot : 0 .. 3, icon : 0 .. 3, booter : 0 .. 3]

GetFlag(info, f) == IF f \in info.global THEN 2 ELSE IF f \in info.own THEN 1 ELSE 0
GetState(info, f, globalState) ==
    CASE GetFlag(info, f) = 0 -> FALSE
      [] GetFlag(info, f) = 1 -> TRUE
      [] OTHER -> globalState

(* setFlags: every flag anew from 0, 1 or anything else *)
SetFlags(info, value, slot, icon) ==
    [info EXCEPT !.own = {f \in Flags : value[f] = 1},
                 !.global = {f \in Flags : value[f] \notin {0, 1}},
                 !.slot = slot % 4, !.icon = icon % 4]

GetDsiWareBooter(info) == IF info.booter <= 2 THEN info.booter ELSE 0

Defaults(g) ==
    [game |-> g, type |-> "UNKNOWN", own |-> {}, global |-> Flags \ {"downloadplay"},
     slot |-> 0, icon |-> 0, booter |-> 0]

(* The types as the window numbers them, and back *)
SaveTypeToDisplaySaveType(t) ==
    IF \E i \in 1 .. Len(DisplayTypes) : DisplayTypes[i] = t
    THEN (CHOOSE i \in 1 .. Len(DisplayTypes) : DisplayTypes[i] = t) - 1
    ELSE 0
DisplaySaveTypeToSaveType(d) ==
    IF d + 1 \in 1 .. Len(DisplayTypes) THEN DisplayTypes[d + 1] ELSE "UNKNOWN"

-----------------------------------------------------------------------------
(* The list *)

EntriesOf(list, g) == {i \in 1 .. Len(list) : list[i].game = g}
IsFirst(i, S) == i \in S /\ \A j \in S : i <= j

(* updateSaveInfoByInfo: the first entry of the game, or what is known     *)
UpdateSaveInfoByInfo(list, g) ==
    IF EntriesOf(list, g) # {}
    THEN list[CHOOSE i \in 1 .. Len(list) : IsFirst(i, EntriesOf(list, g))]
    ELSE [Defaults(g) EXCEPT !.type = RomList[g]]

UpdateByAppending(list, info) == Append(list, info)    \* mutant: the old entry stays first
UpdateCustomSaveList(list, info) ==
    IF EntriesOf(list, info.game) = {} THEN Append(list, info)
    ELSE [i \in 1 .. Len(list) |->
             IF IsFirst(i, EntriesOf(list, info.game)) THEN info ELSE list[i]]

-----------------------------------------------------------------------------
(* The list on the card: nothing, a file that breaks off or is something   *)
(* else, or a list whose entries may be of an older, shorter kind.         *)

NoList == [kind |-> "none"]
TornList == [kind |-> "torn"]
ListFile(items) == [kind |-> "list", old |-> FALSE, items |-> items]
OldListFile(items) == [kind |-> "list", old |-> TRUE, items |-> items]
SavedLists ==
    {NoList, TornList} \cup [kind : {"list"}, old : BOOLEAN, items : Seq(Infos)]

(* An entry that ends with the byte of flags: the rest reads as 0. *)
Shortened(info) ==
    [info EXCEPT !.own = @ \cap OldFlags, !.global = {}, !.icon = 0, !.booter = 0]

(* importSaveList: a list that cannot be read leaves the one in memory.    *)
LoadSaveList(file, list) ==
    IF file.kind # "list" THEN list
    ELSE IF file.old THEN [i \in 1 .. Len(file.items) |-> Shortened(file.items[i])]
    ELSE file.items

(* exportCustomSaveList truncates the file and writes it again: off before *)
(* it is closed, it is torn.                                               *)
CutLists(list) == {TornList, ListFile(list)}
=============================================================================
