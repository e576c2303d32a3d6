------------------------------ MODULE CheatTree ------------------------------
(***************************************************************************)
(* usrcheat.dat and the tree the cheat window shows of it (cheat.cpp,      *)
(* cheatwnd.cpp).  A game's record is a sequence of folders, each with the *)
(* number of codes that follow it, and codes; a folder of kind "one" has   *)
(* at most one code in use.  A code without data is not shown.  A place in *)
(* the record is the code's byte in the file: 0, or in use.                *)
(***************************************************************************)
EXTENDS ListView, FiniteSetsExt

CONSTANTS CheatIndex,    \* [game, offset] of the records, in the order of the file
          CheatEnd,      \* its length
          CheatRecords   \* offset -> the record there

Folder(n) == [kind |-> "folder", codes |-> n]
OneFolder(n) == [kind |-> "one", codes |-> n]
Code == [kind |-> "code", data |-> TRUE]
NoCode == [kind |-> "code", data |-> FALSE]

(* searchCheatData: where the game's record is, up to the next one *)
SearchCheatData(g) ==
    LET found == {i \in 1 .. Len(CheatIndex) : CheatIndex[i].game = g}
        next == IF Min(found) < Len(CheatIndex) THEN CheatIndex[Min(found) + 1].offset
                ELSE CheatEnd
    IN  IF found = {} THEN [pos |-> 0, size |-> 0]
        ELSE [pos |-> CheatIndex[Min(found)].offset,
              size |-> next - CheatIndex[Min(found)].offset]
HasCheats(g) == SearchCheatData(g).pos # 0 /\ SearchCheatData(g).size # 0
Record(g) == CheatRecords[SearchCheatData(g).pos]

Places == [kind : {"folder", "one"}, codes : Nat] \cup [kind : {"code"}, data : BOOLEAN]
ASSUME CheatAssumption == \A pos \in DOMAIN CheatRecords : CheatRecords[pos] \in Seq(Places)

IsFolder(rec, p) == rec[p].kind # "code"
FoldersOf(rec, p) ==
    {h \in 1 .. p - 1 : IsFolder(rec, h) /\ ~IsFolder(rec, p) /\ p <= h + rec[h].codes}
Members(rec, h) == {p \in DOMAIN rec : h \in FoldersOf(rec, p) /\ rec[p].data}
InOneFolder(rec, p) == \E h \in FoldersOf(rec, p) : rec[h].kind = "one"

(* The items of the window, and those shown while the folders open are *)
ItemsOf(rec) == {p \in DOMAIN rec : IsFolder(rec, p) \/ rec[p].data}
Items(rec) == Inserted([p \in DOMAIN rec |-> p], ItemsOf(rec))
RowsShown(rec, open) == Inserted(Items(rec), {p \in DOMAIN rec : FoldersOf(rec, p) \subseteq open})

(* parseInternal: the codes in use; of a folder with one, the first.       *)
Parsed(rec, bytes) ==
    {p \in DOMAIN rec :
        /\ ~IsFolder(rec, p) /\ rec[p].data /\ bytes[p] # 0
        /\ \A h \in FoldersOf(rec, p) : rec[h].kind = "one" =>
               \A q \in Members(rec, h) : q < p => bytes[q] = 0}

ToggledFromHere(rec, sel, p) ==      \* mutant: only the codes after it are taken out
    IF InOneFolder(rec, p)
    THEN (sel \ UNION {{q \in Members(rec, h) : q >= p} : h \in FoldersOf(rec, p)})
         \cup ({p} \ sel)
    ELSE (sel \ {p}) \cup ({p} \ sel)
(* A on a code: the others of a folder with one go out, deselectFolder *)
Toggled(rec, sel, p) ==
    IF InOneFolder(rec, p)
    THEN (sel \ UNION {Members(rec, h) : h \in FoldersOf(rec, p)}) \cup ({p} \ sel)
    ELSE (sel \ {p}) \cup ({p} \ sel)

WrittenByRow(rec, bytes, sel, n) ==  \* mutant: counts the items, not their places
    [p \in DOMAIN rec |-> IF p \in 1 .. n /\ p <= Len(Items(rec)) /\ ~IsFolder(rec, p)
                          THEN IF Items(rec)[p] \in sel THEN 1 ELSE 0 ELSE bytes[p]]
(* updateDB for the items up to place n: a byte that is right is left alone *)
Written(rec, bytes, sel, n) ==
    [p \in DOMAIN rec |-> IF p > n \/ p \notin ItemsOf(rec) \/ IsFolder(rec, p) THEN bytes[p]
                          ELSE IF p \in sel THEN 1 ELSE 0]

(* LEFT and RIGHT look for the next folder shown. *)
FolderBefore(rec, rows, i) ==        \* i > 0: _List ids count from 0
    LET heads == {j \in 1 .. i - 1 : IsFolder(rec, rows[j + 1])}
    IN  IF heads = {} THEN 0 ELSE Max(heads)
FolderAfter(rec, rows, i) ==
    LET heads == {j \in i + 1 .. Len(rows) - 1 : IsFolder(rec, rows[j + 1])}
    IN  IF heads = {} THEN Len(rows) ELSE Min(heads)
=============================================================================
