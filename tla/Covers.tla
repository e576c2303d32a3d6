------------------------------- MODULE Covers -------------------------------
(* Pictures from files (bmp15.cpp) and the cover of the selected game on the *)
(* upper screen (coverwnd.cpp): what is read, decoded, kept and drawn, with  *)
(* the vertical blank drawing it between any two steps of the update.        *)
(*                                                                           *)
(* A picture is [width, height, pixels], its pixels a function from <<y, x>>.*)
(* A file is a record of the fields of its header and `rows`, the lines as   *)
(* they lie in the file; `size` is its length in bytes. A mask of a channel  *)
(* is the set of its bits.                                                   *)
EXTENDS Integers, Sequences, FiniteSets, FiniteSetsExt

CONSTANTS ScreenWidth, ScreenHeight,     \* 256 and 192
          MaxSource,                     \* longest side of a cover's file (1024)
          MaxFile                        \* bytes of a cover's file (1 MiB)

BIT15 == 32768
Opaque(p) == p >= BIT15
Smaller(a, b) == IF a < b THEN a ELSE b
RGB15(r, g, b) == r + 32 * g + 1024 * b
NoPicture == [width |-> 0, height |-> 0, pixels |-> <<>>]
-----------------------------------------------------------------------------
(* Pictures of the theme: 16 bits in a pixel, an even number of them in a    *)
(* line, lines from the bottom up; all of it in two megabytes.               *)

Pitch(width) == 2 * (width + (width % 2))

ThemeAccepts(f) ==
    /\ f.size >= 54 /\ f.mark = "BM" /\ f.planes = 1 /\ f.bits = 16
    /\ f.compression \in {0, 3}
    /\ f.width # 0 /\ f.height # 0 /\ f.width <= 1024 /\ f.height >= 0
    /\ 54 <= f.offset /\ f.offset <= f.size
    /\ Pitch(f.width) * f.height <= 2097152
    /\ Pitch(f.width) * f.height <= f.size - f.offset

(* Red and blue change places; black is transparent, all else opaque.        *)
ThemePixel(v) ==
    LET p == RGB15((v \div 1024) % 32, (v \div 32) % 32, v % 32)
    IN IF p = 0 THEN 0 ELSE BIT15 + p

ThemePicture(f) ==
    [width |-> f.width, height |-> f.height,
     pixels |-> [q \in (0 .. (f.height - 1)) \X (0 .. ((Pitch(f.width) \div 2) - 1)) |->
                   ThemePixel(f.rows[f.height - 1 - q[1]][q[2]])]]

(* A picture once read is given again, whatever became of the file; a file   *)
(* that could not be read is tried again.                                    *)
createBMP15FromFile(pool, name, files) ==
    IF name \in DOMAIN pool THEN [pool |-> pool, bmp |-> pool[name]]
    ELSE IF name \in DOMAIN files /\ ThemeAccepts(files[name])
         THEN [pool |-> [n \in DOMAIN pool \cup {name} |->
                           IF n = name THEN ThemePicture(files[name]) ELSE pool[n]],
               bmp |-> ThemePicture(files[name])]
         ELSE [pool |-> pool, bmp |-> NoPicture]
-----------------------------------------------------------------------------
(* Covers: any of the usual forms.                                           *)

Contiguous(mask) == mask = {} \/ mask = Min(mask) .. Max(mask)

(* A channel scaled to 255, rounded. (A mask of 25 bits or more would run    *)
(* over; the files have eight at most.)                                      *)
componentFromMask(value, mask) ==
    LET top == 2 ^ Cardinality(mask) - 1
        component == (value \div 2 ^ Min(mask)) % (top + 1)
    IN IF mask = {} THEN 0 ELSE (component * 255 + (top \div 2)) \div top

HasMasks(f) == f.compression \in {3, 6}
HasAlphaMask(f) == f.dib >= 56 \/ f.compression = 6

RowBytes(f) == 4 * ((f.width * f.bits + 31) \div 32)
Lines(f) == IF f.height > 0 THEN f.height ELSE -f.height
Colours(f) == IF f.colours = 0 THEN 2 ^ f.bits ELSE f.colours

HeaderFits(f) ==
    /\ f.size >= 54 /\ f.size <= MaxFile /\ f.mark = "BM"
    /\ f.dib >= 40 /\ f.width > 0 /\ f.height # 0
    /\ f.dib <= f.size - 14 /\ f.offset >= 14 + f.dib
    /\ f.planes = 1 /\ f.bits \in {1, 4, 8, 16, 24, 32}
    /\ f.compression \in {0, 3, 6}
    /\ HasMasks(f) => f.bits \in {16, 32}

ImageFits(f) ==
    /\ f.width <= MaxSource /\ Lines(f) <= MaxSource
    /\ f.offset <= f.size /\ RowBytes(f) * Lines(f) <= f.size - f.offset

MasksFit(f) ==
    HasMasks(f) =>
      /\ 14 + 40 + 12 <= f.size /\ 14 + 40 + 12 <= f.offset
      /\ HasAlphaMask(f) => 14 + 40 + 16 <= f.size /\ 14 + 40 + 16 <= f.offset
      /\ {} \notin {f.red, f.green, f.blue}
      /\ f.red \cap f.green = {} /\ f.red \cap f.blue = {} /\ f.green \cap f.blue = {}
      /\ Contiguous(f.red) /\ Contiguous(f.green) /\ Contiguous(f.blue)
      /\ HasAlphaMask(f) => Contiguous(f.alpha)

PaletteFits(f) ==
    f.bits <= 8 => /\ Colours(f) <= 2 ^ f.bits
                   /\ 14 + f.dib <= f.offset
                   /\ Colours(f) <= (f.offset - (14 + f.dib)) \div 4

MasksOf(f) ==
    IF HasMasks(f)
    THEN [r |-> f.red, g |-> f.green, b |-> f.blue, a |-> IF HasAlphaMask(f) THEN f.alpha ELSE {}]
    ELSE [r |-> 10 .. 14, g |-> 5 .. 9, b |-> 0 .. 4, a |-> {}]

(* The fourth byte of a pixel counts only when some pixel of the file has it.*)
UsesAlpha(f) ==
    /\ f.bits = 32 /\ (~HasMasks(f) \/ MasksOf(f).a = {})
    /\ \E y \in DOMAIN f.rows : \E x \in 0 .. (f.width - 1) : f.rows[y][x].a # 0

(* The colour of a pixel, in red, green, blue and alpha of 8 bits each: an   *)
(* index into the palette, a number under masks, or the bytes.               *)
Colour(f, v) ==
    LET k == MasksOf(f)
    IN CASE f.bits <= 8 -> [r |-> f.palette[v].r, g |-> f.palette[v].g, b |-> f.palette[v].b, a |-> 255]
         [] f.bits = 16 \/ HasMasks(f) ->
              LET n == v.n
              IN [r |-> componentFromMask(n, k.r), g |-> componentFromMask(n, k.g),
                  b |-> componentFromMask(n, k.b),
                  a |-> IF k.a = {} THEN 255 ELSE componentFromMask(n, k.a)]
         [] OTHER -> [r |-> v.r, g |-> v.g, b |-> v.b,
                      a |-> IF UsesAlpha(f) THEN v.a ELSE 255]

CoverPixel(c) == RGB15(c.r \div 8, c.g \div 8, c.b \div 8) + (IF c.a # 0 THEN BIT15 ELSE 0)

(* The part of the file that is shown: its upper left corner.                *)
SourceRow(f, row) == IF f.height > 0 THEN Lines(f) - row - 1 ELSE row
Shown(f) == (0 .. (Smaller(Lines(f), ScreenHeight) - 1)) \X (0 .. (Smaller(f.width, ScreenWidth) - 1))

IndexesFit(f) == f.bits <= 8 => \A q \in Shown(f) : f.rows[SourceRow(f, q[1])][q[2]] < Colours(f)

Decodes(f) ==
    HeaderFits(f) /\ ImageFits(f) /\ MasksFit(f) /\ PaletteFits(f) /\ IndexesFit(f)

decodeBmp15(f) ==
    IF ~Decodes(f) THEN NoPicture
    ELSE [width |-> Smaller(f.width, ScreenWidth), height |-> Smaller(Lines(f), ScreenHeight),
          pixels |-> [q \in Shown(f) |-> CoverPixel(Colour(f, f.rows[SourceRow(f, q[1])][q[2]]))]]

(* Black columns on the right are cut off when they are four or more.        *)
Blank(p) == ~Opaque(p) \/ p = BIT15
trimTrailingBlankColumns(c) ==
    LET marked == {x \in 0 .. (c.width - 1) : \E y \in 0 .. (c.height - 1) : ~Blank(c.pixels[<<y, x>>])}
        width == 1 + Max({0} \cup marked)
    IN IF c.width - width < 4 THEN c
       ELSE [width |-> width, height |-> c.height,
             pixels |-> [q \in (0 .. (c.height - 1)) \X (0 .. (width - 1)) |-> c.pixels[q]]]
-----------------------------------------------------------------------------
(* Which file is a game's cover.                                             *)

DsExtensions == {"nds", "ndz", "dsi", "srl", "ids"}

(* A row of the list: whether it is a file, the extension of its name in     *)
(* small letters ("" without a dot), and what its header says.               *)
isSupportedRom(row) ==
    /\ row.isFile
    /\ \/ row.extension = "gba" /\ row.gba
       \/ row.extension # "gba" /\ row.extension \in DsExtensions /\ row.ds

GbaDirectories == <<"covers_code", "covers_name", "pico_gba">>

(* The files tried, in order; codeValid: four characters, none a separator.  *)
Candidates(row) ==
    LET In(dirs, by) == [k \in DOMAIN dirs |-> <<dirs[k], by>>]
        ByCode(dirs) == IF row.codeValid THEN In(dirs, "code") ELSE <<>>
    IN IF row.gba THEN ByCode(GbaDirectories) \o In(GbaDirectories, "name")
       ELSE ByCode(<<"covers_code">>)
              \o (IF row.extension # "" THEN In(<<"covers_name">>, "name") ELSE <<>>)
              \o ByCode(<<"pico_nds">>)

(* tryLoad and loadCover: the first that can be decoded, without its padding.*)
loadCover(row, files) ==
    LET tried == Candidates(row)
        good == {k \in DOMAIN tried : /\ tried[k] \in DOMAIN files
                                      /\ Decodes(files[tried[k]])}
    IN IF good = {} THEN NoPicture
       ELSE trimTrailingBlankColumns(decodeBmp15(files[tried[Min(good)]]))
-----------------------------------------------------------------------------
(* The window: the row it shows, its picture, and whether the vertical blank *)
(* may come and draw. A call is the sequence of the states it goes through.  *)

NoCover == [path |-> "", pixels |-> <<>>, width |-> 0, height |-> 0, open |-> TRUE]

clear(w) ==
    << [w EXCEPT !.path = ""],
       [w EXCEPT !.path = "", !.pixels = <<>>],
       [w EXCEPT !.path = "", !.pixels = <<>>, !.width = 0],
       [w EXCEPT !.path = "", !.pixels = <<>>, !.width = 0, !.height = 0] >>

update(w, enabled, path, row, files) ==
    LET next == IF isSupportedRom(row) THEN loadCover(row, files) ELSE NoPicture
        w1 == [w EXCEPT !.path = path]
        w2 == [w1 EXCEPT !.open = FALSE]
        w3 == [w2 EXCEPT !.pixels = next.pixels]
        w4 == [w3 EXCEPT !.width = next.width]
        w5 == [w4 EXCEPT !.height = next.height]
    IN CASE ~enabled -> clear(w)
         [] enabled /\ w.path = path -> <<w>>
         [] enabled /\ w.path # path -> <<w1, w2, w3, w4, w5, [w5 EXCEPT !.open = w.open]>>

Drawable(w, enabled) == enabled /\ w.pixels # <<>> /\ w.width # 0 /\ w.height # 0

Unset == -32768

(* The part of the picture that is drawn and where. ui has the place, or     *)
(* Unset for the middle of the screen.                                       *)
drawCover(w, ui) ==
    LET px == IF ui.x = Unset THEN (ScreenWidth - w.width) \div 2 ELSE ui.x
        py == IF ui.y = Unset THEN (ScreenHeight - w.height) \div 2 ELSE ui.y
        sx == IF px < 0 THEN -px ELSE 0
        sy == IF py < 0 THEN -py ELSE 0
        x == IF px < 0 THEN 0 ELSE px
        y == IF py < 0 THEN 0 ELSE py
    IN [sx |-> sx, sy |-> sy, x |-> x, y |-> y,
        w |-> Smaller(w.width - sx, ScreenWidth - x), h |-> Smaller(w.height - sy, ScreenHeight - y)]

Draws(d) == d.w > 0 /\ d.h > 0
Fade(ui) == IF ui.fade = 0 THEN "masked" ELSE "blended"
Darkens(w, enabled, ui) == Drawable(w, enabled) /\ ui.darken # 0
-----------------------------------------------------------------------------
(* What may be relied on.                                                    *)

Whole(w) == w.pixels # <<>> => DOMAIN w.pixels = (0 .. (w.height - 1)) \X (0 .. (w.width - 1))

(* Whenever the vertical blank may come in an update or when the cover is    *)
(* put away, what it draws is a whole picture: its pixels are as many as its *)
(* sides say.                                                                *)
DrawnWhole(steps, enabled) ==
    \A k \in DOMAIN steps : steps[k].open /\ Drawable(steps[k], enabled) => Whole(steps[k])

(* What is drawn lies on the screen and in the picture.                      *)
DrawnInside(w, ui) ==
    LET d == drawCover(w, ui)
    IN Draws(d) => /\ d.x >= 0 /\ d.y >= 0 /\ d.x + d.w <= ScreenWidth /\ d.y + d.h <= ScreenHeight
                   /\ d.sx >= 0 /\ d.sy >= 0 /\ d.sx + d.w <= w.width /\ d.sy + d.h <= w.height

(* A decoded cover is no larger than the screen and shows the file's upper   *)
(* left corner; every byte it was made of lies in the file.                  *)
DecodedFits(f) ==
    LET c == decodeBmp15(f)
    IN Decodes(f) =>
         /\ c.width \in 1 .. ScreenWidth /\ c.height \in 1 .. ScreenHeight
         /\ \A q \in DOMAIN c.pixels : /\ SourceRow(f, q[1]) \in DOMAIN f.rows
                                       /\ q[2] \in DOMAIN f.rows[SourceRow(f, q[1])]
         /\ f.offset + RowBytes(f) * Lines(f) <= f.size

(* Only columns of no colour are cut, and never all.                         *)
TrimsBlanks(c) ==
    LET t == trimTrailingBlankColumns(c)
    IN /\ t.width \in 1 .. c.width /\ t.height = c.height
       /\ \A q \in DOMAIN c.pixels : IF q[2] < t.width THEN t.pixels[q] = c.pixels[q]
                                     ELSE Blank(c.pixels[q])

(* A cover by the code is preferred to one by the name, and one in the       *)
(* menu's own directories to the others.                                     *)
CodeFirst(row) ==
    LET c == Candidates(row)
    IN \A i, j \in DOMAIN c : /\ c[i][1] = c[j][1] /\ c[i][2] = "code" /\ c[j][2] = "name" => i < j
                              /\ c[i] = c[j] => i = j

(* A name gives the same picture again, also when its file has changed.      *)
PoolKeeps(pool, name, before, after) ==
    LET first == createBMP15FromFile(pool, name, before)
    IN first.bmp # NoPicture =>
         createBMP15FromFile(first.pool, name, after).bmp = first.bmp
=============================================================================
