------------------------------ MODULE MCArmIpc ------------------------------
\* Every kind of console for TLC: a DS or a DS Lite, a DSi or a 3DS, open or
\* restricted, with or without a card in the SD slot.
EXTENDS ArmIpc, TLC

MCConsoles ==
    {c \in [dsi: BOOLEAN, is3DS: BOOLEAN, locked: BOOLEAN, sd: BOOLEAN,
            debug: BOOLEAN, system: 1 .. 2] :
        /\ c.is3DS => c.dsi
        /\ c.locked => c.dsi
        /\ c.sd => c.dsi
        /\ c.dsi => c.system = 2}
-----------------------------------------------------------------------------
(* What NandRead says of itself: keys of every word of two bits, and disks   *)
(* of sectors of two blocks, read two sectors at a time.                     *)

Four(a, b, c, d) == (0 :> a) @@ (1 :> b) @@ (2 :> c) @@ (3 :> d)
KeyNumbers == [0 .. 3 -> 0 .. 3]
ConsoleIds == [0 .. 1 -> 0 .. 3]
SomeKeyY == Four(1, 3, 0, 2)
SomeMagic == Four(3, 1, 2, 3)
Salt == (1 :> 1) @@ (2 :> 2)
NintendoSalt == (1 :> 3) @@ (2 :> 0)

Keys == INSTANCE NandRead WITH
    WordBits <- 2, Rotate <- 1, NandKeyY <- SomeKeyY, KeyMagic <- SomeMagic,
    DsiSalt <- Salt, CtrSalt <- NintendoSalt,
    SectorBytes <- 4, AesBlock <- 2, ChunkSectors <- 2, FixBlock <- 2
Disks == INSTANCE NandRead WITH
    WordBits <- 6, Rotate <- 1, NandKeyY <- SomeKeyY, KeyMagic <- SomeMagic,
    DsiSalt <- Salt, CtrSalt <- NintendoSalt,
    SectorBytes <- 4, AesBlock <- 2, ChunkSectors <- 2, FixBlock <- 2

ASSUME SumsExact ==
    \A a \in KeyNumbers : /\ \A b \in KeyNumbers : Keys!AddsAs128(a, b)
                          /\ \A b \in 0 .. 3 : Keys!CountsAs128(a, b)

ASSUME KeysRecovered ==
    /\ \A x \in KeyNumbers : Keys!SameAsF_XY(x)
    /\ \A id \in ConsoleIds, is3DS \in BOOLEAN : Keys!KeyRecovered(id, is3DS)

(* Six sectors; the first block's counter is just below a carry.             *)
FirstCounter == Four(60, 63, 63, 1)
PlainBlock(k, signs) == IF (k % 2) = 1 /\ (k \div 2) \in signs THEN "blank" ELSE k
DiskOf(bad, fix, signs) ==
    [bad |-> bad, fix |-> fix,
     blocks |-> [k \in 0 .. 11 |->
                   [ctr |-> Disks!add_128_32(FirstCounter, k), plain |-> PlainBlock(k, signs)]]]

ASSUME SectorsRead ==
    /\ \A bad \in {{}, {0}, {2}, {3}, {5}}, fix \in {0, 1, 3}, offset \in 0 .. 5, len \in 0 .. 6 :
          offset + len <= 6 =>
             Disks!ReadsPlain(DiskOf(bad, fix, {fix}), FirstCounter, offset, len)
    (* One sector reads differently when the read begins before it. *)
    /\ LET disk == DiskOf({}, 1, {1})
       IN Disks!nandio_read_sectors(disk, FirstCounter, 1, 1).data
            # SubSeq(Disks!nandio_read_sectors(disk, FirstCounter, 0, 2).data, 3, 4)

Header0(magic, kinds, signature) ==
    [magic |-> magic, fs_types |-> kinds, signature |-> signature, first |-> 3]
Answers(sd, nand, recovered, key) == [sd |-> sd, nand |-> nand, recovered |-> recovered, key |-> key]

ASSUME NandStartsRight ==
    \A sd, nand \in 0 .. 1, recovered, signature, is3DS \in BOOLEAN, id, other \in ConsoleIds,
       magic \in {"NCSD", "none"}, kinds \in {<<1, 4, 0, 9>>, <<1, 2, 0, 0>>} :
       Keys!StartsRight(DiskOf({}, 5, {}),
                        Answers(sd, nand, recovered, Keys!dsi_aes_set_key(id, is3DS)),
                        Header0(magic, kinds, signature), Keys!dsi_aes_set_key(other, is3DS))
=============================================================================
