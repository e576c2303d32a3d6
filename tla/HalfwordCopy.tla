---------------------------- MODULE HalfwordCopy ----------------------------
(* Copies and fills that are safe on video memory (tonccpy.arm.c, and the    *)
(* same text in launcher/libfat_ext/tonccpy.c): video memory drops writes of *)
(* one byte, so the loops write words and halfwords only and put back the    *)
(* neighbouring byte of a halfword they need half of.                        *)
(*                                                                           *)
(* A memory is a function from 0 .. n-1 (n even) to bytes; the source is a   *)
(* function from the offsets of its bytes. An address counts from a word     *)
(* boundary, so its remainder by four is its alignment.                      *)
EXTENDS Integers

(* The bytes from `from` on, `len` of them, become those of the source from  *)
(* its offset `o` on.                                                        *)
Filled(mem, from, len, src, o) ==
    [a \in DOMAIN mem |-> IF from <= a /\ a < from + len
                          THEN src[o + (a - from)] ELSE mem[a]]

(* What the device of switch and do-while copies: the remainder first, then  *)
(* whole rounds of four.                                                     *)
Rounds(n) == (n % 4) + 4 * (n \div 4)

ByWords(dst, srcAddr, size) == (dst % 4) = 0 /\ (srcAddr % 4) = 0 /\ size >= 4

(* The last byte: the low half of a halfword whose high half is put back.    *)
TailPut(mem, p, o, left, src) ==
    IF (left % 2) = 1 THEN [mem EXCEPT ![p] = src[o], ![p + 1] = mem[p + 1]] ELSE mem

(* Halfwords from the even address p on, then the odd byte.                  *)
Halves(mem, p, o, left, src) ==
    LET bulk == 2 * (left \div 2)
    IN TailPut(Filled(mem, p, bulk, src, o), p + bulk, o + bulk, left, src)

WordsThenTail(mem, dst, src, size) ==
    LET bulk == 4 * Rounds(size \div 4)
    IN Halves(Filled(mem, dst, bulk, src, 0), dst + bulk, bulk, size % 4, src)

(* An odd destination: the high half of the halfword it lies in.             *)
HeadPut(mem, dst, src) == [mem EXCEPT ![dst - 1] = mem[dst - 1], ![dst] = src[0]]

tonccpy(mem, dst, src, srcAddr, size) ==
    CASE size = 0 -> mem
      [] size # 0 /\ ByWords(dst, srcAddr, size) -> WordsThenTail(mem, dst, src, size)
      [] size # 0 /\ ~ByWords(dst, srcAddr, size) /\ (dst % 2) = 1 ->
            Halves(HeadPut(mem, dst, src), dst + 1, 1, size - 1, src)
      [] OTHER -> Halves(mem, dst, 0, size, src)

(* A word at w with the bytes `keep` says put back: the four bytes of `fill` *)
(* in their places, at the positions that are not kept.                      *)
MaskedWord(mem, w, fill, keep) ==
    [a \in DOMAIN mem |-> IF w <= a /\ a < w + 4 /\ (a - w) \notin keep
                          THEN fill[a % 4] ELSE mem[a]]

WordsOf(mem, w, n, fill) ==
    [a \in DOMAIN mem |-> IF w <= a /\ a < w + 4 * n THEN fill[a % 4] ELSE mem[a]]

(* Words from the word boundary w on, then the first bytes of the last one.  *)
WordsThenMask(mem, w, size, fill) ==
    LET n == Rounds(size \div 4)
        rest == size % 4
        done == WordsOf(mem, w, n, fill)
    IN IF rest = 0 THEN done
       ELSE MaskedWord(done, w + 4 * n, fill, rest .. 3)

toncset(mem, dst, fill, size) ==
    LET left == dst % 4
        w == dst - left
    IN CASE size = 0 -> mem
         [] size # 0 /\ left # 0 /\ left + size < 4 ->
               MaskedWord(mem, w, fill, 0 .. 3 \ left .. (left + size - 1))
         [] size # 0 /\ left # 0 /\ left + size >= 4 ->
               WordsThenMask(MaskedWord(mem, w, fill, 0 .. left - 1),
                             w + 4, size - (4 - left), fill)
         [] OTHER -> WordsThenMask(mem, w, size, fill)
-----------------------------------------------------------------------------
(* What a caller may rely on: tonccpy is a copy of `size` bytes and of       *)
(* nothing else, whatever the two alignments and the size.                   *)
CopiesExactly(mem, dst, src, srcAddr, size) ==
    tonccpy(mem, dst, src, srcAddr, size) = Filled(mem, dst, size, src, 0)

(* The same for a fill: every byte of the range takes the byte of the fill   *)
(* word at its own position in a word, and no other byte changes.            *)
Set(mem, dst, fill, size) ==
    [a \in DOMAIN mem |-> IF dst <= a /\ a < dst + size THEN fill[a % 4] ELSE mem[a]]
FillsExactly(mem, dst, fill, size) ==
    toncset(mem, dst, fill, size) = Set(mem, dst, fill, size)
=============================================================================
