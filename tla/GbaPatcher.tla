----------------------------- MODULE GbaPatcher -----------------------------
(***************************************************************************)
(* What CGbaPatcher (gbapatcher.cpp, gbanes.cpp) writes into a GBA ROM: so *)
(* that the game keeps its save in the battery-backed SRAM of the pack,    *)
(* and so that it can be put to sleep.  A ROM is the marks the scan can    *)
(* find in it (code of the save libraries and their version labels) and    *)
(* what its header says.  A patch is the place and length of a write.      *)
(***************************************************************************)
EXTENDS Integers, Sequences

CONSTANT EMax  \* room for marks (32); what is found after that is dropped

ASSUME EMaxAssumption == EMax \in 0..32

W(at, len) == [at |-> at, len |-> len]

(***************************************************************************)
(* A mark: its type, the address it starts at, and the version a label     *)
(* carries (0 in the others).                                              *)
(***************************************************************************)
Mark(type, at, ver) == [type |-> type, at |-> at, ver |-> ver]

\* Words the scan skips behind the first word of a mark.
SkippedLabel ==
    [ESRAMLabel |-> 1, EEEPROMLabel |-> 1, EFLASH1M10XLabel |-> 2,
     EFLASHLabel |-> 1, EFLASH512Label |-> 2]

SkippedEeprom ==
    [EEEPROMRead |-> 4, EEEPROMWrite |-> 4, EEEPROMWrite124 |-> 5, EEEPROMWrite126 |-> 7]

SkippedFlash ==
    [EFLASH1M102_1 |-> 2, EFLASH1M102_2 |-> 2, EFLASH1M102_3 |-> 5, EFLASH1M102_4 |-> 7,
     EFLASH1M102_5 |-> 5, EFLASH1M103_1 |-> 3, EFLASH1M103_2 |-> 7, EFLASH1M103_3 |-> 5,
     EFLASH1M103_4 |-> 5, EFLASH_1 |-> 7, EFLASH_2 |-> 7, EFLASH_3 |-> 7, EFLASH_4 |-> 7,
     EFLASHV123_1 |-> 3, EFLASHV123_2 |-> 3, EFLASHV123_3 |-> 3, EFLASHV123_4 |-> 3,
     EFLASHV123_5 |-> 3, EFLASH512_1 |-> 3, EFLASH512_2 |-> 5]

MarkTypes == DOMAIN SkippedLabel \cup DOMAIN SkippedEeprom \cup DOMAIN SkippedFlash

Skipped(type) ==
    IF type \in DOMAIN SkippedLabel THEN SkippedLabel[type]
    ELSE IF type \in DOMAIN SkippedEeprom THEN SkippedEeprom[type] ELSE SkippedFlash[type]

\* Where the scan goes on behind a mark it has found.
AfterMark(m) == m.at + 4 * (Skipped(m.type) + 1)

-----------------------------------------------------------------------------
(***************************************************************************)
(* The families of save libraries.  A table says for each type of mark     *)
(* which versions it is expected in and what is written at it; a mark of   *)
(* the table in another version ends the patcher, after what it has        *)
(* written so far (Error jumps back to Patch).                             *)
(***************************************************************************)
At(versions, writes) == [versions |-> versions, writes |-> writes]

\* Sizes of the routines that replace the library's, in bytes.
EepromCode  == [read |-> 34, write |-> 34]
Flash1MCode == [f1 |-> 10, f2 |-> 8, f3 |-> 76, f4 |-> 2, f5 |-> 104, f6 |-> 10, f7 |-> 2,
                f8 |-> 28, f9 |-> 8, fa |-> 88, fix |-> 2]
FlashCode   == [f1 |-> 14, f2 |-> 8, f3 |-> 8, f4 |-> 40, f5 |-> 38, f6 |-> 42]

EepromTable ==
    LET write == <<W(0, EepromCode.write)>> IN
    [EEEPROMRead     |-> {At({120, 121, 122, 124, 126}, <<W(0, EepromCode.read)>>)},
     EEEPROMWrite    |-> {At({120, 121, 122}, write)},
     EEEPROMWrite124 |-> {At({124}, write)},
     EEEPROMWrite126 |-> {At({126}, write)}]

\* The second write of two puts the page of the SRAM bank into the first.
Flash1MTable ==
    LET c == Flash1MCode
        fixed(size, at) == <<W(0, size), W(at, c.fix)>>
    IN
    [EFLASH1M102_1 |-> {At({102}, <<W(0, c.f1)>>), At({103}, <<W(0, c.f6)>>)},
     EFLASH1M102_2 |-> {At({102, 103}, <<W(0, c.f2)>>)},
     EFLASH1M102_3 |-> {At({102}, fixed(c.f3, 38))},
     EFLASH1M102_4 |-> {At({102}, <<W(6, c.f4), W(12, c.f4), W(16, c.f4)>>), At({103}, <<>>)},
     EFLASH1M102_5 |-> {At({102, 103}, fixed(c.f5, 50))},
     EFLASH1M103_1 |-> {At({102}, <<>>), At({103}, <<W(2, c.f7), W(8, c.f7), W(12, c.f7)>>)},
     EFLASH1M103_2 |-> {At({103}, <<W(2, c.f8)>>)},
     EFLASHV123_3  |-> {At({102}, <<>>), At({103}, <<W(0, c.f9)>>)},
     EFLASH1M103_3 |-> {At({103}, fixed(c.f3, 38))},
     EFLASH1M103_4 |-> {At({103}, fixed(c.fa, 46))}]

FlashTable ==
    LET v12 == {120, 121}
        v123 == {123, 124, 125, 126}
        v13 == {130, 131, 133}
        one(versions, code) == {At(versions, <<W(0, FlashCode[code])>>)}
    IN
    [EFLASH1M102_2 |-> one(v13, "f3"),          EFLASH_1     |-> one(v12, "f1"),
     EFLASH_2      |-> one(v12, "f2"),          EFLASH_3     |-> one(v12, "f2"),
     EFLASH_4      |-> one(v12, "f4"),          EFLASHV123_1 |-> one(v123, "f3"),
     EFLASHV123_2  |-> one(v123, "f5"),         EFLASHV123_3 |-> one(v123 \cup v13, "f2"),
     EFLASHV123_4  |-> one(v123 \cup v13, "f2"), EFLASHV123_5 |-> one(v123, "f6"),
     EFLASH512_1   |-> one(v13, "f5"),          EFLASH512_2  |-> one(v13, "f6")]

\* What a table has written at a mark, and whether the version is an error.
Shift(at, writes) == [k \in DOMAIN writes |-> W(at + writes[k].at, writes[k].len)]

ApplyMark(table, ver, m) ==
    LET fits == IF m.type \in DOMAIN table
                THEN {e \in table[m.type] : ver \in e.versions} ELSE {}
    IN  [writes |-> IF fits = {} THEN <<>>
                    ELSE Shift(m.at, (CHOOSE e \in fits : TRUE).writes),
         error  |-> m.type \in DOMAIN table /\ fits = {}]

Labels(marks, types) == SelectSeq(marks, LAMBDA m : m.type \in types)
TwoVersions(labels) == \E i, j \in DOMAIN labels : labels[i].ver # labels[j].ver

\* A family: whether it applies, the size of the save, what it writes whatever
\* the marks are, whether that is an error, and its table and version.
NoTable == [type \in {} |-> {}]

Family(applies, save, writes, error) ==
    [applies |-> applies, save |-> save, writes |-> writes, error |-> error,
     table |-> NoTable, ver |-> 0]

WithTable(save, table, ver) ==
    [Family(TRUE, save, <<>>, FALSE) EXCEPT !.table = table, !.ver = ver]

NotApplied == Family(FALSE, 0, <<>>, FALSE)
Conflict   == Family(TRUE, 128 * 1024, <<>>, TRUE)

\* A Classic NES game is known by the code it starts with; index is the word
\* that code is at.
PatchNes(rom) ==
    IF rom.nes = 0 THEN NotApplied
    ELSE Family(TRUE, 8 * 1024,
                <<W(36 + rom.nes * 4, 4), W(\hff800, 832), W(\hff840, 4)>>
                    \o (IF rom.nes2 THEN <<W(\hff86c, 4)>> ELSE <<>>), FALSE)

PatchSRAM(marks) ==
    IF Labels(marks, {"ESRAMLabel"}) = <<>> THEN NotApplied
    ELSE Family(TRUE, 32 * 1024, <<>>, FALSE)

Patch111Offsets == <<\hb666c, \h37570, \h485ec, \h485ec, \h37580, \h37520>>
Patch111Offsets2 == <<\hb6940, \h37844, \h488c0, \h488c0, \h37854, \h377f4>>
Patch111Offsets3 == <<\h3eba70, \h7ffaf0, \h7b75b0, \h7b71a0, \h7ff640, \h7fe2a0>>

\* Version 1.11 of the EEPROM library: a list of games, by header and code.
PatchEEPROM111(rom) ==
    IF rom.eeprom111 = 0 THEN <<>>
    ELSE <<W(Patch111Offsets[rom.eeprom111], 8), W(Patch111Offsets2[rom.eeprom111], 8),
           W(Patch111Offsets3[rom.eeprom111], 184),
           W(Patch111Offsets3[rom.eeprom111] + 184, 4)>>

PatchEEPROM(rom, marks) ==
    LET labels == Labels(marks, {"EEEPROMLabel"}) IN
    IF labels = <<>> THEN NotApplied
    ELSE IF TwoVersions(labels) THEN Conflict
    ELSE IF labels[1].ver = 111 THEN Family(TRUE, 512, PatchEEPROM111(rom), FALSE)
    ELSE WithTable(8 * 1024, EepromTable, labels[1].ver)

\* Only the first label is looked at.
PatchFLASH1M_V10X(marks) ==
    LET labels == Labels(marks, {"EFLASH1M10XLabel"}) IN
    IF labels = <<>> THEN NotApplied
    ELSE WithTable(128 * 1024, Flash1MTable, labels[1].ver)

PatchFLASH(marks) ==
    LET labels == Labels(marks, {"EFLASHLabel", "EFLASH512Label"}) IN
    IF labels = <<>> THEN NotApplied
    ELSE IF TwoVersions(labels) THEN Conflict
    ELSE WithTable(64 * 1024, FlashTable, labels[1].ver)

\* The first family that applies, in this order.
PatchSave(rom, marks) ==
    IF PatchNes(rom).applies THEN PatchNes(rom)
    ELSE IF PatchSRAM(marks).applies THEN PatchSRAM(marks)
    ELSE IF PatchEEPROM(rom, marks).applies THEN PatchEEPROM(rom, marks)
    ELSE IF PatchFLASH1M_V10X(marks).applies THEN PatchFLASH1M_V10X(marks)
    ELSE IF PatchFLASH(marks).applies THEN PatchFLASH(marks)
    ELSE [NotApplied EXCEPT !.save = 128 * 1024]

-----------------------------------------------------------------------------
\* Dragon Ball Z: a list of games, patched whatever the family was.
DbzOffsets1 == <<\h033C, \h0340, \h0356, \h035A, \h035E, \h0384, \h0388,
                 \h494C, \h4950, \h4978, \h497C, \h998E, \h9992>>
DbzOffsets2 == <<\h356, \h35e, \h37e, \h382>>

Each(offsets, shift, len) == [k \in DOMAIN offsets |-> W(offsets[k] + shift, len)]

PatchDragonBallZ(rom) ==
    CASE rom.dbz = 1 -> Append(Each(DbzOffsets2, \h40000, 2), W(\hbb9016, 2))
      [] rom.dbz = 2 -> Each(DbzOffsets1, 0, 2)
      [] rom.dbz = 3 -> Each(DbzOffsets2, 0, 2)
      [] rom.dbz = 4 -> <<W(\h6f42b2, 2)>>
      [] rom.dbz = 5 -> <<W(\h3b8e9e, 2)>>
      [] rom.dbz = 6 -> <<W(\h3fc8f6, 2)>>
      [] OTHER -> <<>>

-----------------------------------------------------------------------------
(***************************************************************************)
(* Games whose sleep is patched by a list: rom.sleep is the place of the   *)
(* game's code and revision in that list, 0 for a game that is not in it.  *)
(* The games of the list are grouped in styles.                            *)
(***************************************************************************)
SleepOffsets ==
    [baldur     |-> <<\h6a32b4, \h6a32b8, \h2e320, \h29f98, \h6012c, \h2e19c, \h5e744,
                      \h5e780, \h5e07a2, \h5e07a2>>,
     rayman3    |-> <<\h15aba, \h15aca, \h15ac2, \h15ad2, \h815aba, \h188e>>,
     zelda2     |-> <<\h721f4, \h720c4, \h720a8, \h75350, \h55e04, \h56284, \h561dc,
                      \h56108, \h7ee26, \h7f72a, \h7ee26, \h7f72a, \h68f1e, \h68352,
                      \h68e8a, \h4ca, \h366e>>,
     mario      |-> <<\h2a1c, \hfd9d2, \h2978, \hfb8e6, \h2978, \hfb686, \h2978, \hfc02e,
                      \h56e, \hb4ea8, \h56e, \hb67b8, \h56e, \hb9220, \h56e, \hb9700,
                      \h56e, \hb61c0, \h56e, \hb68a0, \h18aae, \hf504c4, \h18a9a,
                      \hf504c4, \h18aae, \hf504c4, \h56e, \hb6368>>,
     drmario    |-> <<\h91830, \h422d0a, \h91830, \h41b5d0>>,
     goldensun2 |-> <<\h137ac, \h17270, \h137d8, \h1729c>>,
     nes        |-> <<\hbf8, \h1788, \h870, \hc54, \h7ec, \h85c, \hac4, \hb78, \hb10,
                      \h85c, \h9b8, \h2e2c>>,
     goldensun  |-> <<\h33fe, \h6cec, \h341e, \h6d0c, \h342e, \h6d1c, \h344e, \h6d3c>>,
     prince     |-> <<\h72a40, \h72a40>>]

\* Two writes of a game that has two offsets in the table of its style.
Pair(style, k, len) == <<W(SleepOffsets[style][2 * k - 1], len), W(SleepOffsets[style][2 * k], len)>>

\* Golden Sun is patched only where the scan has found the code of the save
\* library: the second write follows what the save patch has put there.
GoldenSun(style, k, marks) ==
    LET at == SleepOffsets[style][2 * k] IN
    IF \E j \in DOMAIN marks : marks[j].type = "EFLASHV123_3" /\ marks[j].at = at
    THEN <<W(SleepOffsets[style][2 * k - 1], 10), W(at + 8, 28)>> ELSE <<>>

\* The entries 0 to 32: one write.
SleepBySingle(i) ==
    IF i < 10 THEN <<W(SleepOffsets.baldur[i + 1], 2)>>
    ELSE IF i < 16 THEN <<W(SleepOffsets.rayman3[i - 9], 2)>>
    ELSE <<W(SleepOffsets.zelda2[i - 15], 2)>>

\* Those to 51: two, three or four.
SleepBySeveral(i) ==
    IF i < 47 THEN Pair("mario", i - 32, 2)
    ELSE IF i = 47 THEN <<W(\h2bd70, 2), W(\h2bd76, 2), W(\h2bdd8, 2)>>
    ELSE IF i < 50 THEN Pair("drmario", i - 47, 2)
    ELSE IF i = 50 THEN <<W(\h7fd8, 2), W(\h7fda, 2), W(\h7ff8, 2), W(\h803c, 2)>>
    ELSE <<W(\h7f1e, 2), W(\h7f24, 4), W(\h7f46, 8)>>

\* Those to 77: with code of their own; entry 69 needs no patch.
SleepByCode(i, marks) ==
    IF i < 57 THEN GoldenSun("goldensun2", IF i = 52 THEN 1 ELSE 2, marks)
    ELSE IF i < 69 THEN <<W(SleepOffsets.nes[i - 56], 12), W(\hffb40, 56)>>
    ELSE IF i = 69 THEN <<>>
    ELSE IF i < 74 THEN GoldenSun("goldensun", i - 69, marks)
    ELSE IF i < 76 THEN <<W(SleepOffsets.prince[i - 73], 2), W(SleepOffsets.prince[i - 73] + 6, 2)>>
    ELSE <<W(\h6349, 1)>>

PatchSleepWrites(rom, marks) ==
    LET i == rom.sleep - 1 IN
    IF i < 0 \/ i > 77 THEN <<>>
    ELSE IF i < 33 THEN SleepBySingle(i)
    ELSE IF i < 52 THEN SleepBySeveral(i)
    ELSE SleepByCode(i, marks)

\* Whether the list has settled the matter: not if Golden Sun was not patched.
SleepListed(rom, marks) ==
    rom.sleep # 0 /\ (PatchSleepWrites(rom, marks) # <<>> \/ rom.sleep - 1 = 69)
=============================================================================
