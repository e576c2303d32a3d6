-------------------------------- MODULE Gdi --------------------------------
(* Drawing into the back buffers (gdi.cpp, gdi.h): rectangles, lines, copies *)
(* with and without a mask, blending, text, what a presented frame shows,    *)
(* and the fonts.                                                            *)
(*                                                                           *)
(* A buffer is a function from 0 .. Pitch * Lines - 1 to pixels of sixteen   *)
(* bits, the top bit meaning opaque; the screen has Pitch = 256 pixels in a  *)
(* line. A picture is a function from the offsets of its pixels. Every       *)
(* operator returns the buffer the call leaves.                              *)
EXTENDS Integers, Sequences, FiniteSets, FiniteSetsExt

CONSTANT Pitch     \* pixels in a line of the screen, an even number (256)

BIT15 == 32768
Opaque(p) == p >= BIT15
Solid(c) == IF Opaque(c) THEN c ELSE c + BIT15
U16(n) == n % 65536
Even(n) == (n % 2) = 0
Abs(n) == IF n < 0 THEN -n ELSE n
TowardZero(n, d) == IF n < 0 THEN -((-n) \div d) ELSE n \div d

(* A loop over h lines of w pixels that starts at `from` and moves on by     *)
(* `inc` pixels behind each line; Val(i, j, old) is what the pixel takes.    *)
Painted(buf, from, w, h, inc, Val(_, _, _)) ==
    LET stride == w + U16(inc)
        Line(p) == (p - from) \div stride
        Column(p) == (p - from) % stride
    IN [p \in DOMAIN buf |->
          IF from <= p /\ Line(p) < h /\ Column(p) < w
          THEN Val(Line(p), Column(p), buf[p]) ELSE buf[p]]

At(x, y) == y * Pitch + x

(* Both loops give the pixels of a line color1 and color2 in turn: the fill  *)
(* by words writes the pair, the odd pixel behind it takes the first.        *)
fillRect(buf, c1, c2, x, y, w, h) ==
    Painted(buf, At(x, y), w, h, Pitch - w,
            LAMBDA i, j, old : IF Even(j) THEN Solid(c1) ELSE Solid(c2))

(* The points of a line from one point up to the other, which is left out:   *)
(* the step along the longer side is one pixel, the other coordinate is cut  *)
(* towards zero. (The slopes the program draws are 0, 1 and -1, which single *)
(* precision adds up exactly.)                                               *)
LinePoints(x1, y1, x2, y2) ==
    LET dx == x2 - x1
        dy == y2 - y1
        Sign(n) == IF n > 0 THEN 1 ELSE -1
    IN CASE dx = 0 /\ dy = 0 -> {}
         [] dx = 0 /\ dy # 0 ->
              {<<x1, y>> : y \in IF y1 < y2 THEN y1 .. (y2 - 1) ELSE (y2 + 1) .. y1}
         [] dx # 0 /\ dy = 0 ->
              {<<x, y1>> : x \in IF x1 < x2 THEN x1 .. (x2 - 1) ELSE (x2 + 1) .. x1}
         [] dx # 0 /\ dy # 0 /\ Abs(dx) > Abs(dy) ->
              {<<x1 + Sign(dx) * k, y1 + TowardZero(k * dy, Abs(dx))>> : k \in 0 .. (Abs(dx) - 1)}
         [] OTHER ->
              {<<x1 + TowardZero(k * dx, Abs(dy)), y1 + Sign(dy) * k>> : k \in 0 .. (Abs(dy) - 1)}

(* Coordinates of a pixel are bytes; a line along x is a rectangle one high. *)
(* A pixel takes the main screen's pen on both screens (gdi.h:40).           *)
drawLine(buf, x1, y1, x2, y2, pen, penMain) ==
    LET pts == LinePoints(x1, y1, x2, y2)
        level == y1 = y2
        hit == {IF level THEN At(q[1], q[2]) ELSE At(q[1] % 256, q[2] % 256) : q \in pts}
    IN [p \in DOMAIN buf |-> IF p \in hit THEN (IF level THEN Solid(pen) ELSE penMain) ELSE buf[p]]

FramePoints(x, y, w, h) ==
    LinePoints(x, y, x + w - 1, y)
      \cup LinePoints(x + w - 1, y, x + w - 1, y + h - 1)
      \cup LinePoints(x + w - 1, y + h - 1, x, y + h - 1)
      \cup LinePoints(x, y + h - 1, x, y)

(* A frame `thickness` pixels thick: one frame inside another until the      *)
(* inside is two pixels or less.                                             *)
ThickFramePoints(x, y, w, h, thickness) ==
    LET Rings == {k \in 0 .. (thickness - 1) :
                    \A m \in 0 .. (k - 1) : h - 2 * m > 2 /\ w - 2 * m > 2}
    IN UNION {FramePoints(x + k, y + k, w - 2 * k, h - 2 * k) : k \in Rings}
-----------------------------------------------------------------------------
(* Copies.                                                                   *)

(* A copy by words leaves out an odd last pixel, which is copied behind it;  *)
(* the copy engine drops the low bit of the source's address. Nothing is     *)
(* drawn at an odd x.                                                        *)
bitBlt(buf, src, srcW, srcH, x, y, w, h) ==
    LET dw == IF w > srcW THEN srcW ELSE w
        dh == IF h > srcH THEN srcH ELSE h
        Val(i, j, old) == LET o == i * (dw + U16(srcW - dw))
                          IN IF j < 2 * (dw \div 2) THEN src[(o - (o % 2)) + j] ELSE src[o + j]
    IN IF w = 0 \/ ~Even(x) THEN buf
       ELSE Painted(buf, At(x, y), dw, dh, Pitch - dw, Val)

(* The whole picture, whose lines in memory are an even number of pixels.    *)
bitBltWhole(buf, src, x, y, w, h) ==
    LET pitch == w + (w % 2)
    IN Painted(buf, At(x, y), pitch, h, Pitch - pitch,
               LAMBDA i, j, old : src[i * pitch + j])

Masked(p, old) == IF Opaque(p) THEN p ELSE old

(* Two pixels at once where both are opaque, one by one where not: the same  *)
(* either way. An odd picture is drawn with the padding of its lines.        *)
maskBltWhole(buf, src, x, y, w, h) ==
    LET pitch == w + (w % 2)
    IN Painted(buf, At(x, y), pitch, h, Pitch - pitch,
               LAMBDA i, j, old : Masked(src[i * pitch + j], old))

(* Part of a picture. Behind the pairs of an aligned line the odd last pixel *)
(* is copied whatever its mask says; srcAddr is the halfword the picture     *)
(* starts at.                                                                *)
maskBlt(buf, src, srcAddr, srcW, srcH, x, y, w, h) ==
    LET dw == IF w > srcW THEN srcW ELSE w
        dh == IF h > srcH THEN srcH ELSE h
        step == dw + U16(srcW - dw)
        Val(i, j, old) ==
            LET p == src[i * step + j]
            IN IF Even(x) /\ Even(srcAddr + i * step) /\ ~Even(dw) /\ j = dw - 1
               THEN p ELSE Masked(p, old)
    IN IF w = 0 THEN buf
       ELSE Painted(buf, At(x, y), dw, dh, Pitch - dw, Val)
-----------------------------------------------------------------------------
(* Blending. A channel is five bits.                                         *)

Channel(p, k) == (p \div 2 ^ (5 * k)) % 32
RGB15(r, g, b) == r + 32 * g + 1024 * b
Mix(a, b, opacity) == (a * opacity + b * (100 - opacity) + 50) \div 100

blendBlt(buf, src, srcW, x, y, w, h, opacity) ==
    LET step == w + U16(srcW - w)
        Val(i, j, old) ==
            LET s == src[i * step + j]
                C(k) == Mix(Channel(s, k), Channel(old, k), opacity)
            IN IF Opaque(s) THEN BIT15 + RGB15(C(0), C(1), C(2)) ELSE old
    IN IF w = 0 \/ h = 0 \/ opacity = 0 THEN buf
       ELSE Painted(buf, At(x, y), w, h, Pitch - w, Val)

(* Bits of a number: those of 0x7c1f are red and blue, of 0x3e0 green; the   *)
(* products keep five bits of fraction below each channel.                   *)
RedBlue(p) == (p % 32) + 1024 * ((p \div 1024) % 32)
Green(p) == 32 * ((p \div 32) % 32)
RedBlueOf(v) == 32 * ((v \div 32) % 32) + 32768 * ((v \div 32768) % 32)
GreenOf(v) == 1024 * ((v \div 1024) % 32)
BlendedColor(color, original, opacity) ==
    LET alpha == (opacity * 32) \div 100
        rb == RedBlueOf(RedBlue(color) * alpha + RedBlue(original) * (32 - alpha))
        g == GreenOf(Green(color) * alpha + Green(original) * (32 - alpha))
    IN BIT15 + ((rb + g) \div 32)

(* `below` is what the colours are laid over: the background picture on the  *)
(* main screen, the buffer itself on the upper one.                          *)
fillRectBlend(buf, below, c1, c2, x, y, w, h, opacity) ==
    CASE opacity = 0 -> buf
      [] opacity = 100 -> fillRect(buf, c1, c2, x, y, w, h)
      [] OTHER -> Painted(buf, At(x, y), w, h, Pitch - w,
                    LAMBDA i, j, old :
                      BlendedColor(IF Even(j) THEN c1 ELSE c2,
                                   below[At(x, y) + i * Pitch + j], opacity))
-----------------------------------------------------------------------------
(* Text. A text is a sequence of glyph widths, NewLine for a line break; the *)
(* result is the positions drawn. A line that is full goes on without        *)
(* drawing until its break; a break below the last line ends the text.       *)

NewLine == 0

textOutRect(x, y, w, h, text, fontHeight) ==
    LET limitY == y + h - fontHeight
        Breaks(n) == {k \in 1 .. n : text[k] = NewLine}
        RowOf(n) == Cardinality(Breaks(n))
        YOf(n) == y + RowOf(n) * fontHeight
        StartOf(n) == IF Breaks(n) = {} THEN 0 ELSE Max(Breaks(n))
        XOf(n) == x + MapThenSumSet(LAMBDA k : text[k], (StartOf(n) + 1) .. (n - 1))
        Ended(n) == RowOf(n) > 0 /\ YOf(n) > limitY
    IN {[glyph |-> n, at |-> <<XOf(n), YOf(n)>>] :
          n \in {n \in 1 .. Len(text) : /\ text[n] # NewLine
                                        /\ ~Ended(n)
                                        /\ XOf(n) + text[n] < x + w}}
-----------------------------------------------------------------------------
(* Frames. The main screen has two layers, each drawn in a back buffer and   *)
(* copied to video memory when it is presented; the back buffer is cleared   *)
(* for the next frame. `layer` is the layer being drawn.                     *)

Cleared(buf, p) == [k \in DOMAIN buf |-> p]

presentMain(fb) == [fb EXCEPT !.front[fb.layer] = fb.back[fb.layer],
                              !.back[fb.layer] = Cleared(@, 0)]
presentBoth(fb) == [fb EXCEPT !.front = fb.back,
                              !.back = [l \in DOMAIN @ |-> Cleared(@[l], 0)]]
presentSub(fb) == [fb EXCEPT !.front = IF fb.graphics THEN fb.back ELSE @,
                             !.back = Cleared(@, 65535)]

(* The background picture, cut into square sprites of t pixels, cols in a    *)
(* row: where each is placed, what it shows, and where in sprite memory its  *)
(* pixels lie (in units of 128 bytes, 64 pixels).                            *)
BgSprites(bg, pitch, t, rows, cols) ==
    [k \in 0 .. (rows * cols - 1) |->
       LET ii == k \div cols
           jj == k % cols
       IN [at |-> <<jj * t, ii * t>>,
           offset |-> 32 + k * ((t * t) \div 64),
           pixels |-> [q \in 0 .. (t * t - 1) |->
                         bg[((q \div t) + ii * t) * pitch + ((q % t) + jj * t)]]]]
-----------------------------------------------------------------------------
(* What the drawing may be relied on for.                                    *)

InRect(p, x, y, w, h) ==
    LET px == p % Pitch
        py == p \div Pitch
    IN x <= px /\ px < x + w /\ y <= py /\ py < y + h

(* A fill colours exactly the pixels of its rectangle, the two colours in    *)
(* turn along a line.                                                        *)
FillsRectangle(buf, c1, c2, x, y, w, h) ==
    fillRect(buf, c1, c2, x, y, w, h) =
        [p \in DOMAIN buf |-> IF InRect(p, x, y, w, h)
                              THEN Solid(IF Even((p % Pitch) - x) THEN c1 ELSE c2)
                              ELSE buf[p]]

(* What a picture shows at a pixel of the screen.                            *)
Shown(src, srcW, p, x, y) == src[((p \div Pitch) - y) * srcW + ((p % Pitch) - x)]

(* A picture with lines of an even number of pixels is copied to exactly its *)
(* rectangle, at an even x.                                                  *)
BlitsPicture(buf, src, srcW, srcH, x, y, w, h) ==
    bitBlt(buf, src, srcW, srcH, x, y, w, h) =
        [p \in DOMAIN buf |-> IF InRect(p, x, y, w, h) THEN Shown(src, srcW, p, x, y) ELSE buf[p]]

(* A masked copy changes exactly the pixels of the rectangle under opaque    *)
(* ones, and leaves the others as they are.                                  *)
MaskKept(buf, src, srcW, x, y, w, h) ==
    [p \in DOMAIN buf |-> IF InRect(p, x, y, w, h) THEN Masked(Shown(src, srcW, p, x, y), buf[p])
                          ELSE buf[p]]
MasksPicture(buf, src, srcAddr, srcW, srcH, x, y, w, h) ==
    maskBlt(buf, src, srcAddr, srcW, srcH, x, y, w, h) = MaskKept(buf, src, srcW, x, y, w, h)

(* A frame is the border of its rectangle, but for one single pixel.         *)
FramesBorder(x, y, w, h) ==
    FramePoints(x, y, w, h) =
        IF w = 1 /\ h = 1 THEN {}
        ELSE {<<px, py>> \in (x .. (x + w - 1)) \X (y .. (y + h - 1)) :
                px = x \/ px = x + w - 1 \/ py = y \/ py = y + h - 1}

(* A blend is made channel by channel: no channel runs into the next.        *)
BlendsChannels(c, o, opacity) ==
    LET alpha == (opacity * 32) \div 100
        C(k) == (Channel(c, k) * alpha + Channel(o, k) * (32 - alpha)) \div 32
    IN BlendedColor(c, o, opacity) = BIT15 + RGB15(C(0), C(1), C(2))

(* No glyph is drawn past the right side, and none below the last line the   *)
(* rectangle has room for.                                                   *)
TextStaysInside(x, y, w, h, text, fontHeight) ==
    \A g \in textOutRect(x, y, w, h, text, fontHeight) :
        /\ x <= g.at[1] /\ g.at[1] + text[g.glyph] < x + w
        /\ h >= fontHeight => g.at[2] + fontHeight <= y + h

(* What was drawn on a layer is what the layer shows, and the next frame     *)
(* starts from nothing.                                                      *)
PresentsWhatWasDrawn(fb) ==
    /\ presentMain(fb).front[fb.layer] = fb.back[fb.layer]
    /\ \A l \in DOMAIN fb.back \ {fb.layer} :
          presentMain(fb).front[l] = fb.front[l] /\ presentMain(fb).back[l] = fb.back[l]
    /\ presentBoth(fb).front = fb.back

(* The sprites cover the picture once, and their pixels do not overlap in    *)
(* sprite memory.                                                            *)
SpritesCover(bg, pitch, t, rows, cols) ==
    LET sp == BgSprites(bg, pitch, t, rows, cols)
        size == (t * t) \div 64
    IN /\ \A px \in 0 .. (cols * t - 1), py \in 0 .. (rows * t - 1) :
            \E k \in DOMAIN sp :
               /\ sp[k].at = <<px - (px % t), py - (py % t)>>
               /\ sp[k].pixels[(py % t) * t + (px % t)] = bg[py * pitch + px]
       /\ \A j, k \in DOMAIN sp :
            j # k => sp[j].at # sp[k].at
                     /\ (sp[j].offset + size <= sp[k].offset \/ sp[k].offset + size <= sp[j].offset)
-----------------------------------------------------------------------------
(* The font (font/font_pcf.cpp): its tables, the search for a character,     *)
(* UTF-8, and the dots that are drawn.                                       *)
(*                                                                           *)
(* A glyph is [code, width, left, right, ascent, descent, offset]; glyphs    *)
(* count from 0, as they lie in the file or sorted by their codes.           *)

(* Text: the bytes of a string from one on, and how many make the character. *)
(* A byte that starts nothing is a question mark.                            *)
Unknown == 63
Continues(b) == b \div 64 = 2
utf8toucs2(s) ==
    LET Byte(k) == IF k <= Len(s) THEN s[k] ELSE 0
    IN CASE Byte(1) < 128 -> [code |-> Byte(1), length |-> 1]
         [] Byte(1) \div 32 = 6 /\ Continues(Byte(2)) ->
              [code |-> (Byte(1) % 32) * 64 + (Byte(2) % 64), length |-> 2]
         [] Byte(1) \div 16 = 14 /\ Continues(Byte(2)) /\ Continues(Byte(3)) ->
              [code |-> (Byte(1) % 16) * 4096 + (Byte(2) % 64) * 64 + (Byte(3) % 64), length |-> 3]
         [] OTHER -> [code |-> Unknown, length |-> 1]

(* The way back, for the texts that the console and the games keep as 16-bit *)
(* units (unicode.cpp): up to a 0, or to the end of their room.              *)
Encoded(c) ==
    CASE c < 128 -> <<c>>
      [] c >= 128 /\ c < 2048 -> <<192 + (c \div 64), 128 + (c % 64)>>
      [] OTHER -> <<224 + (c \div 4096), 128 + ((c \div 64) % 64), 128 + (c % 64)>>
TextEnd(u, length) == Min({length} \cup {k - 1 : k \in {j \in DOMAIN u : u[j] = 0}})
unicode_to_local_string(u, length) ==
    LET text[k \in 0 .. length] == IF k = 0 THEN <<>> ELSE text[k - 1] \o Encoded(u[k])
    IN text[TextEnd(u, length)]
-----------------------------------------------------------------------------
(* The file: a list of its tables; the last one of a kind counts.            *)

Kinds == {"accelerators", "bitmaps", "metrics", "encodings"}

TableOf(f, kind) == LET has == {k \in DOMAIN f.tables : f.tables[k].kind = kind}
                    IN f.tables[Max(has)]

(* ParseMetrics: as many as there are glyphs, and in the short form.         *)
MetricsFit(f) == TableOf(f, "metrics").compressed
                   /\ Len(TableOf(f, "metrics").glyphs) = Len(TableOf(f, "bitmaps").offsets)

(* ParseEncodings: a table by rows and columns of the number of the glyph,   *)
(* NoGlyph for none; of two characters with one glyph the later counts.      *)
NoGlyph == 65535
CodeOf(e, ii) == ((ii \div (e.lastCol - e.firstCol + 1)) + e.firstRow) * 256
                   + (ii % (e.lastCol - e.firstCol + 1)) + e.firstCol
EncodedAs(e, glyph) == {ii \in 0 .. (Len(e.codes) - 1) : e.codes[ii + 1] = glyph}

(* The glyphs the tables give; one that no character has keeps the code its  *)
(* memory held.                                                              *)
Glyphs(f, held) ==
    LET m == TableOf(f, "metrics").glyphs
        e == TableOf(f, "encodings")
    IN [g \in 0 .. (Len(m) - 1) |->
          [code |-> IF EncodedAs(e, g) = {} THEN held[g] ELSE CodeOf(e, Max(EncodedAs(e, g))),
           width |-> m[g + 1].width, left |-> m[g + 1].left, right |-> m[g + 1].right,
           ascent |-> m[g + 1].ascent, descent |-> m[g + 1].descent,
           offset |-> TableOf(f, "bitmaps").offsets[g + 1]]]

Sorts(from, to) ==
    /\ {to[k] : k \in DOMAIN to} = {from[k] : k \in DOMAIN from}
    /\ \A j, k \in DOMAIN to : j < k => to[j].code <= to[k].code

(* Whether the file is loaded as these glyphs: in its order or by the codes. *)
Load(f, held, sort, glyphs) ==
    /\ f.there /\ f.version = "PCF"
    /\ Kinds \subseteq {f.tables[k].kind : k \in DOMAIN f.tables}
    /\ f.complete /\ MetricsFit(f)
    /\ DOMAIN glyphs = DOMAIN Glyphs(f, held)
    /\ IF sort THEN Sorts(Glyphs(f, held), glyphs) ELSE glyphs = Glyphs(f, held)
-----------------------------------------------------------------------------
(* The search by halves, over the glyphs from low to high.                   *)

SearchFrom(glyphs, code) ==
    LET n == Cardinality(DOMAIN glyphs)
        f[r \in (0 .. n) \X (-1 .. (n - 1))] ==
          LET curr == (r[1] + r[2]) \div 2
          IN CASE r[1] > r[2] -> -1
               [] r[1] <= r[2] /\ code = glyphs[curr].code -> curr
               [] r[1] <= r[2] /\ code < glyphs[curr].code -> f[<<r[1], curr - 1>>]
               [] OTHER -> f[<<curr + 1, r[2]>>]
    IN f[<<0, n - 1>>]

(* A character the font has not is a question mark, but for controls.        *)
Search(glyphs, code) ==
    LET found == SearchFrom(glyphs, code)
    IN IF found < 0 /\ code > 32 THEN SearchFrom(glyphs, Unknown) ELSE found

(* The pictures of the buttons are the codes 1 to 7, nine dots wide.         *)
IsButton(code) == code > 0 /\ code < 8
ButtonSide == 9
Width(glyphs, code) ==
    LET g == Search(glyphs, code)
    IN IF g >= 0 THEN glyphs[g].width ELSE IF IsButton(code) THEN ButtonSide + 1 ELSE 0
-----------------------------------------------------------------------------
(* The dots: lines of whole bytes, the lowest bit on the left. Nothing is    *)
(* cut off (the test for it is of numbers without a sign).                   *)

LineBytes(width) == (width + 7) \div 8
Bit(byte, k) == (byte \div 2 ^ k) % 2

Dots(data, offset, width, height) ==
    {q \in (0 .. (width - 1)) \X (0 .. (height - 1)) :
       Bit(data[offset + q[2] * LineBytes(width) + (q[1] \div 8)], q[1] % 8) = 1}

DrawInternal(x, y, data, offset, width, height) ==
    {<<x + q[1], y + q[2]>> : q \in Dots(data, offset, width, height)}

(* A glyph hangs on the base line, `ascent` below the line's top.            *)
Draw(glyphs, data, buttons, ascent, x, y, code) ==
    LET g == Search(glyphs, code)
    IN IF g >= 0
       THEN DrawInternal(x + glyphs[g].left, y - glyphs[g].ascent + ascent, data, glyphs[g].offset,
                         glyphs[g].right - glyphs[g].left, glyphs[g].ascent + glyphs[g].descent)
       ELSE IF IsButton(code)
            THEN DrawInternal(x, y - ButtonSide + ascent, buttons, (code - 1) * 18, ButtonSide, ButtonSide)
            ELSE {}
-----------------------------------------------------------------------------
(* What may be relied on.                                                    *)

(* Every character of the first plane is read from its bytes, and no other   *)
(* text is taken for more bytes than it has.                                 *)
ReadsUtf8(c) == utf8toucs2(Encoded(c)) = [code |-> c, length |-> Len(Encoded(c))]
StaysInText(s) == s # <<>> /\ (\A k \in DOMAIN s : s[k] # 0) => utf8toucs2(s).length <= Len(s)

(* What a title was made of is what the font reads, unit by unit, also the   *)
(* halves of a pair, each of which is three bytes.                           *)
ReadsTitle(u, length) ==
    LET s == unicode_to_local_string(u, length)
        at[k \in 0 .. TextEnd(u, length)] ==
            IF k = 0 THEN 1 ELSE at[k - 1] + Len(Encoded(u[k]))
    IN /\ \A k \in 1 .. TextEnd(u, length) :
             utf8toucs2(SubSeq(s, at[k - 1], Len(s))) = [code |-> u[k], length |-> at[k] - at[k - 1]]
       /\ at[TextEnd(u, length)] = Len(s) + 1

(* A character is found exactly when the font has it and its glyphs are in   *)
(* the order of their codes.                                                 *)
FindsSorted(glyphs, code) ==
    (\A j, k \in DOMAIN glyphs : j < k => glyphs[j].code <= glyphs[k].code) =>
       IF \E k \in DOMAIN glyphs : glyphs[k].code = code
       THEN glyphs[SearchFrom(glyphs, code)].code = code
       ELSE SearchFrom(glyphs, code) = -1
=============================================================================
