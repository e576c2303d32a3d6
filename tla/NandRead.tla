------------------------------ MODULE NandRead ------------------------------
(* Reading the console's NAND (nand/nandio.c, crypto.c, f_xy.c, sector0.c):  *)
(* the key that is worked out backwards and forwards again, the counters of  *)
(* the blocks, and reads cut into what the buffer holds. What passes between *)
(* the processors meanwhile is in ArmIpc.                                    *)
(*                                                                           *)
(* A number of 128 bits is four words, the lowest at 0. A block of the disk  *)
(* is [ctr, plain]: it gives its plain text for its own counter and garbage  *)
(* for any other, which is all that is asked of AES.                         *)
EXTENDS Integers, Sequences, FiniteSets, FiniteSetsExt, Bitwise

CONSTANTS WordBits, Rotate,         \* 32, and 10: a key is turned by 32 + 10 bits
          NandKeyY, KeyMagic,       \* four words each, the same in crypto.c, f_xy.c and nandio.c
          DsiSalt, CtrSalt,         \* the two words in the middle of key X, on a DSi and a 3DS
          SectorBytes, AesBlock,    \* 512 and 16
          ChunkSectors,             \* what crypt_buf holds (64)
          FixBlock                  \* the block of a sector with bytes 0x36 to 0x38 (the fourth)

Words == 0 .. 3
U32(n) == n % 2 ^ WordBits
U64(n) == n % 2 ^ (2 * WordBits)
-----------------------------------------------------------------------------
(* crypto.c, in words of 32 bits.                                            *)

xor_128(a, b) == [i \in Words |-> a[i] ^^ b[i]]

(* A round adds what it has for each word and leaves the carries for the     *)
(* words above.                                                              *)
AddTo(a, b) == [i \in Words |-> IF i \in DOMAIN b THEN U32(a[i] + b[i]) ELSE a[i]]
Carries(a, b) == [i \in {j + 1 : j \in DOMAIN b} \ {4} |-> IF a[i - 1] < b[i - 1] THEN 1 ELSE 0]
add_128(a, b) ==
    LET a1 == AddTo(a, b)
        c1 == Carries(a1, b)
        a2 == AddTo(a1, c1)
        c2 == Carries(a2, c1)
        a3 == AddTo(a2, c2)
    IN AddTo(a3, Carries(a3, c2))

add_128_32(a, b) ==
    LET low == U32(a[0] + b)
        up == low < b
        Next(i) == U32(a[i] + 1)
    IN [i \in Words |->
          CASE i = 0 -> low
            [] i = 1 -> IF up THEN Next(1) ELSE a[1]
            [] i = 2 -> IF up /\ Next(1) = 0 THEN Next(2) ELSE a[2]
            [] OTHER -> IF up /\ Next(1) = 0 /\ Next(2) = 0 THEN Next(3) ELSE a[3]]

rol42_128(a) ==
    [i \in Words |-> U32(a[(i + 3) % 4] * 2 ^ Rotate) + (a[(i + 2) % 4] \div 2 ^ (WordBits - Rotate))]

(* The normal key of a console, from the two words of its id.                *)
KeyX(id, is3DS) ==
    [i \in Words |-> CASE i = 0 -> id[0]
                       [] i = 3 -> id[1]
                       [] OTHER -> IF is3DS THEN CtrSalt[i] ELSE id[(i - 1)] ^^ DsiSalt[i]]
dsi_aes_set_key(id, is3DS) == rol42_128(add_128(xor_128(KeyX(id, is3DS), NandKeyY), KeyMagic))
-----------------------------------------------------------------------------
(* f_xy.c, the same and its inverse in words of 64 bits.                     *)

Pair(a) == [i \in 0 .. 1 |-> a[2 * i] + 2 ^ WordBits * a[2 * i + 1]]
Unpaired(v) ==
    [i \in Words |-> IF (i % 2) = 0 THEN U32(v[i \div 2]) ELSE v[i \div 2] \div 2 ^ WordBits]

n128_lrot(v, shift) ==
    [i \in 0 .. 1 |-> U64(v[i] * 2 ^ shift) + (v[1 - i] \div 2 ^ (2 * WordBits - shift))]
n128_rrot(v, shift) ==
    [i \in 0 .. 1 |-> (v[i] \div 2 ^ shift) + U64(v[1 - i] * 2 ^ (2 * WordBits - shift))]
n128_add(a, b) ==
    LET low == U64(a[0] + b[0])
    IN [i \in 0 .. 1 |-> IF i = 0 THEN low ELSE U64(a[1] + b[1] + (IF low < a[0] THEN 1 ELSE 0))]
n128_sub(a, b) ==
    [i \in 0 .. 1 |-> IF i = 0 THEN U64(a[0] - b[0])
                      ELSE U64(a[1] - b[1] - (IF a[0] < b[0] THEN 1 ELSE 0))]

F_XY(keyX, keyY) ==
    Unpaired(n128_lrot(n128_add(Pair(xor_128(keyX, keyY)), Pair(KeyMagic)), WordBits + Rotate))
F_XY_reverse(key) == Unpaired(n128_sub(n128_rrot(Pair(key), WordBits + Rotate), Pair(KeyMagic)))

(* The id goes from getConsoleID to dsi_crypt_init as eight bytes, turned    *)
(* end to end on the way and read there with the highest byte first. A byte  *)
(* is named by its word of key X and its place in it.                        *)
consoleID == [i \in 0 .. 7 |-> IF i < 4 THEN <<0, i>> ELSE <<3, i - 4>>]
consoleIDfixed == [i \in 0 .. 7 |-> consoleID[7 - i]]
GET_UINT32_BE(b, at) == CHOOSE w \in Words : \A j \in 0 .. 3 : b[at + j] = <<w, 3 - j>>
getConsoleID(key) ==
    LET x == xor_128(F_XY_reverse(key), NandKeyY)
    IN [w \in 0 .. 1 |-> x[GET_UINT32_BE(consoleIDfixed, IF w = 0 THEN 4 ELSE 0)]]
-----------------------------------------------------------------------------
(* Blocks and sectors. A disk is [blocks, bad, fix]: its blocks from 0 on,   *)
(* the sectors ARM7 cannot read, and the sector whose sign is mended (0 for  *)
(* none); iv is the counter of block 0.                                      *)

PerSector == SectorBytes \div AesBlock
Counter(iv, offset, n) ==
    LET ctr[i \in 0 .. n] == IF i = 0 THEN add_128_32(iv, offset) ELSE add_128_32(ctr[i - 1], 1)
    IN ctr
dsi_nand_crypt(iv, blocks, offset) ==
    LET ctr == Counter(iv, offset, Len(blocks))
    IN [i \in DOMAIN blocks |-> IF blocks[i].ctr = ctr[i - 1] THEN blocks[i].plain ELSE "garbage"]

read_sectors(disk, iv, start, len) ==
    LET crypt_buf == [i \in 1 .. len * PerSector |-> disk.blocks[start * PerSector + i - 1]]
        buffer == dsi_nand_crypt(iv, crypt_buf, U32(start * SectorBytes) \div AesBlock)
        Mended == disk.fix # 0 /\ start = disk.fix /\ buffer[FixBlock] = "blank"
    IN IF disk.bad \cap (start .. start + len - 1) # {} THEN [ok |-> FALSE, data |-> <<>>]
       ELSE [ok |-> TRUE,
             data |-> [i \in DOMAIN buffer |-> IF i = FixBlock /\ Mended THEN "FAT" ELSE buffer[i]]]

(* What a failed read had already put into the caller's buffer stays there.  *)
nandio_read_sectors(disk, iv, offset, len) ==
    LET from[left \in 0 .. len] ==
          LET this == read_sectors(disk, iv, offset + len - left, Min({left, ChunkSectors}))
          IN CASE left = 0 -> [ok |-> TRUE, data |-> <<>>]
               [] left > 0 /\ (~this.ok \/ left < ChunkSectors) -> this
               [] OTHER -> [ok |-> from[left - ChunkSectors].ok,
                            data |-> this.data \o from[left - ChunkSectors].data]
    IN from[len]

(* Sector 0 of a 3DS has a header of its own, with the kinds of partitions   *)
(* up to the first 0.                                                        *)
parse_ncsd(h) ==
    LET Used(i) == \A j \in 1 .. i : h.fs_types[j] # 0
    IN CASE h.magic # "NCSD" -> -1
         [] h.magic = "NCSD" /\ \E i \in DOMAIN h.fs_types : Used(i) /\ h.fs_types[i] \notin {1, 3, 4} -> -2
         [] OTHER -> 0

(* nandio_startup with the answers of ARM7 and sector 0; `key` is the normal *)
(* key it recovered, or absent, and `own` the one the disk was written with. *)
nandio_startup(disk, answers, sector0, own) ==
    LET is3DS == parse_ncsd(sector0) = 0
        right == dsi_aes_set_key(getConsoleID(answers.key), is3DS) = own
        Failed(why) == [ok |-> FALSE, error |-> why, fix |-> disk.fix]
    IN CASE answers.sd = 0 -> Failed("SD/MMC unavailable")
         [] answers.sd # 0 /\ answers.nand # 0 -> Failed("NAND init failed")
         [] answers.sd # 0 /\ answers.nand = 0 /\ 0 \in disk.bad -> Failed("sector read failed")
         [] answers.sd # 0 /\ answers.nand = 0 /\ 0 \notin disk.bad /\ ~answers.recovered ->
              Failed("AES key recovery failed")
         [] OTHER -> IF right /\ sector0.signature
                     THEN [ok |-> TRUE, error |-> "", fix |-> IF is3DS THEN 0 ELSE sector0.first]
                     ELSE Failed("decrypted MBR invalid")
-----------------------------------------------------------------------------
(* What may be relied on.                                                    *)

ValueOf(a) == MapThenSumSet(LAMBDA i : a[i] * 2 ^ (i * WordBits), Words)
U128(n) == n % 2 ^ (4 * WordBits)

(* The four rounds lose no carry, and neither does the counter.              *)
AddsAs128(a, b) == ValueOf(add_128(a, b)) = U128(ValueOf(a) + ValueOf(b))
CountsAs128(a, b) == ValueOf(add_128_32(a, b)) = U128(ValueOf(a) + b)

(* "equivalent to F_XY in twltool/f_xy.c" (crypto.c:102), and it can be      *)
(* undone.                                                                   *)
SameAsF_XY(x) ==
    LET key == rol42_128(add_128(xor_128(x, NandKeyY), KeyMagic))
    IN key = F_XY(x, NandKeyY) /\ F_XY_reverse(key) = xor_128(x, NandKeyY)

(* From the key ARM7 found, the id of the console comes back, and from the   *)
(* id the same key.                                                          *)
KeyRecovered(id, is3DS) ==
    LET key == dsi_aes_set_key(id, is3DS)
    IN getConsoleID(key) = id /\ dsi_aes_set_key(getConsoleID(key), is3DS) = key

(* Whatever the cuts, a read gives the plain blocks, but for the mended sign *)
(* of a sector that a chunk begins with; it fails when a sector of it does,  *)
(* and then has given the blocks of whole chunks.                            *)
PlainAt(disk, offset, i) == disk.blocks[offset * PerSector + i - 1].plain
MendedAt(disk, offset, i) ==
    /\ disk.fix # 0 /\ disk.fix >= offset /\ (disk.fix - offset) % ChunkSectors = 0
    /\ i = (disk.fix - offset) * PerSector + FixBlock /\ PlainAt(disk, offset, i) = "blank"
ReadsPlain(disk, iv, offset, len) ==
    LET r == nandio_read_sectors(disk, iv, offset, len)
    IN /\ r.ok <=> disk.bad \cap (offset .. offset + len - 1) = {}
       /\ r.ok => Len(r.data) = len * PerSector
       /\ ~r.ok => (Len(r.data) % (ChunkSectors * PerSector)) = 0
       /\ \A i \in DOMAIN r.data :
             r.data[i] = IF MendedAt(disk, offset, i) THEN "FAT" ELSE PlainAt(disk, offset, i)

(* A start that succeeds has the key of this disk, and only a DSi's disk has *)
(* a sign to mend; one that fails leaves it as it was.                       *)
StartsRight(disk, answers, sector0, own) ==
    LET r == nandio_startup(disk, answers, sector0, own)
    IN /\ r.ok => dsi_aes_set_key(getConsoleID(answers.key), parse_ncsd(sector0) = 0) = own
       /\ r.ok /\ r.fix # 0 => parse_ncsd(sector0) # 0 /\ r.fix = sector0.first
       /\ ~r.ok => r.fix = disk.fix /\ r.error # ""
=============================================================================
