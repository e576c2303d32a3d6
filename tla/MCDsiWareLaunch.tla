--------------------------- MODULE MCDsiWareLaunch ---------------------------
(* DsiWareLaunch with both kinds of save and two places besides the ROM's.   *)
EXTENDS DsiWareLaunch

CONSTANTS pub, prv, absent, empty, short, blank, slot0, slot1, rom
-----------------------------------------------------------------------------
(* The path for Unlaunch: characters around each border of their lengths,    *)
(* every text of up to three of the bytes at the borders of the ranges, and  *)
(* pairs of halves; buffers from none to more than enough (259 in the code). *)

Borders == {1, 127, 128, 2047, 2048, 55295, 55296, 57343, 57344, 65535, 65536, 1114111}
NearBorders == {c \in UNION {{b - 1, b, b + 1} : b \in Borders} : IsCharacter(c)}
EdgeBytes == {1, 65, 127, 128, 143, 144, 159, 160, 191, 192, 193, 194, 223, 224, 237, 239, 240, 244, 245, 248}
EdgeTexts == UNION {[1 .. n -> EdgeBytes] : n \in 0 .. 3}
HalfPairs == {<<237, a, b, 237, c, b>> : a \in {159, 160, 175}, b \in {128, 191}, c \in {159, 176, 191}}

ASSUME PathsToldUnlaunch ==
    /\ \A c \in NearBorders, capacity \in 0 .. 3 : CharacterKept(c, capacity)
    /\ \A capacity \in {1, 2, 5} :
          PathsApart(EdgeTexts \cup HalfPairs \cup {Utf8(c) : c \in NearBorders}
                       \cup [1 .. 4 -> {128, 143, 144, 191, 224, 240, 244, 245}], capacity)
    (* Nothing is beyond the last character. *)
    /\ ~makeUnlaunchPath(<<244, 144, 128, 128>>, 9).ok
    (* The buffer has to hold the longer "sdmc:/". *)
    /\ \A n \in 0 .. 12 :
          makeUnlaunchPath(SdPrefix \o [k \in 1 .. n |-> 65], 14).ok <=> n + 6 <= 14
=============================================================================
