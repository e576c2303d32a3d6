----------------------------- MODULE MCGbaPatch -----------------------------
(***************************************************************************)
(* ROMs chosen so that patches cross the end of a NOR page, jump between   *)
(* pages, and fail half way; and, for two ROMs that are in no list, every  *)
(* sequence of a few loads and stores in front of the sleep search.  The   *)
(* pages have their real size; of the ROM only the cells a patch begins or *)
(* ends in are looked at.                                                  *)
(***************************************************************************)
EXTENDS GbaPatch, TLC

CONSTANTS r0, r1

MCRegisters == {r0, r1}
MCSymmetry  == Permutations(MCRegisters)
MCGaps      == {4, 220}
MCLiterals  == (4000 :> "intr" @@ 4004 :> "iwram")
MCErased    == Val("erased", 0)
MCMixed     == Val("mixed", 0)

Plain == [size |-> 16384, last |-> 5000, nes |-> 0, nes2 |-> FALSE, eeprom111 |-> 0,
          dbz |-> 0, sleep |-> 0, marks |-> <<>>]

Page(n) == n * 262144

\* Two for the search: filler at the end, and none behind the end of a page.
Searched == {Plain, [Plain EXCEPT !.size = 263000, !.last = 261840]}

Listed ==
    {\* EEPROM, the first patch across the end of a page; then far away, then back
     [Plain EXCEPT !.size = Page(48), !.last = Page(48) - 2, !.dbz = 1, !.sleep = 17,
        !.marks = <<Mark("EEEPROMLabel", 4096, 124), Mark("EEEPROMRead", Page(1) - 16, 0),
                    Mark("EEEPROMWrite124", Page(4) - 8, 0)>>],
     \* the page behind follows
     [Plain EXCEPT !.size = Page(48), !.last = Page(48) - 2, !.dbz = 2, !.sleep = 34,
        !.marks = <<Mark("EEEPROMLabel", 4096, 122), Mark("EEEPROMRead", Page(1) - 16, 0),
                    Mark("EEEPROMWrite", Page(1) + 64, 0)>>],
     \* two versions; a version the code does not belong to
     [Plain EXCEPT !.sleep = 1,
        !.marks = <<Mark("EEEPROMLabel", 4096, 124), Mark("EEEPROMLabel", 8192, 122)>>],
     [Plain EXCEPT !.sleep = 51,
        !.marks = <<Mark("EFLASH1M10XLabel", 4096, 102), Mark("EFLASH1M102_5", 6000, 0),
                    Mark("EFLASH1M103_4", 7000, 0)>>],
     \* FLASH1M, FLASH and FLASH512, with marks that overlap
     [Plain EXCEPT !.size = Page(4), !.last = Page(4) - 2, !.sleep = 52,
        !.marks = <<Mark("EFLASH1M10XLabel", 4096, 103), Mark("EFLASH1M103_1", 6000, 0),
                    Mark("EFLASHV123_3", 6004, 0), Mark("EFLASH1M103_3", Page(2) - 40, 0)>>],
     [Plain EXCEPT !.size = Page(4), !.last = Page(4) - 2, !.sleep = 53,
        !.marks = <<Mark("EFLASHLabel", 4096, 126), Mark("EFLASHV123_3", 94832, 0)>>],
     [Plain EXCEPT !.size = Page(4), !.last = Page(4) - 2, !.sleep = 71,
        !.marks = <<Mark("EFLASHLabel", 4096, 124), Mark("EFLASHV123_3", 27884, 0)>>],
     [Plain EXCEPT !.sleep = 49,
        !.marks = <<Mark("EFLASH512Label", 4096, 131), Mark("EFLASH512_2", 6000, 0)>>],
     \* Classic NES, SRAM, EEPROM 1.11, and games without a save library
     [Plain EXCEPT !.size = Page(4), !.last = Page(4) - 2, !.nes = 50, !.nes2 = TRUE, !.sleep = 58],
     [Plain EXCEPT !.sleep = 48, !.dbz = 3, !.marks = <<Mark("ESRAMLabel", 4096, 0)>>],
     [Plain EXCEPT !.size = Page(48), !.last = Page(48) - 2, !.eeprom111 = 2, !.sleep = 70,
        !.marks = <<Mark("EEEPROMLabel", 4096, 111)>>],
     [Plain EXCEPT !.size = Page(48), !.last = Page(48) - 2, !.dbz = 5, !.sleep = 75],
     [Plain EXCEPT !.dbz = 4, !.size = Page(48), !.sleep = 77],
     [Plain EXCEPT !.dbz = 6, !.size = Page(48), !.sleep = 11]}

MCRoms == Searched \cup Listed

\* The cells: where patches begin and end, the code and literals of the search,
\* and where a routine is appended.
Ends(writes) == UNION {{w.at, w.at + w.len - 1} : w \in {writes[k] : k \in DOMAIN writes}}

CodeCells == {a + b + c : a, b, c \in MCGaps \cup {0}} \cup {4000, 4004}

Appended(trim) == {trim, trim + 427} \cup {trim + 428 + 36 * k : k \in 0..3}
                                     \cup {trim + 463 + 36 * k : k \in 0..3}

MCCells ==
    CodeCells \cup Appended(14336) \cup Appended(261856)
    \cup {Page(k) - 1 : k \in {1, 2, 4}} \cup {Page(k) : k \in {1, 2, 4}}
    \cup UNION {LET family == PatchSave(r, r.marks) IN
                Ends(family.writes)
                \cup UNION {Ends(ApplyMark(family.table, family.ver, r.marks[k]).writes)
                           : k \in DOMAIN r.marks}
                \cup Ends(PatchDragonBallZ(r)) \cup Ends(PatchSleepWrites(r, r.marks))
                : r \in Listed}

MCValues == [kind : {"old", "rom", "filler", "erased", "mixed", "patch", "bx", "jump",
                     "activation", "sleep"}, n : Nat]
=============================================================================
