----------------------------- MODULE MCMainList -----------------------------
(* MainList with a folder of five entries and an empty one on the microSD    *)
(* card, a small tree on the console's own SD card, and the top menu of      *)
(* every console.                                                            *)
EXTENDS MainList, TLC

MCParentOf == [e \in Entries |->
    CASE e \in {"a.nds", "a.sav", "b.nds", "inner"} -> "games"
      [] e = "deep.nds" -> "inner"
      [] e = "d.nds" -> "dsi"
      [] e \in {"dsi", "other.nds"} -> "sd"
      [] OTHER -> "fat"]
MCOrder == <<"fat", "sd", "dsi", "empty", "games", "inner", "a.nds", "a.sav", "b.nds",
             "d.nds", "deep.nds", "other.nds">>
MCRank == [e \in Devices \cup Entries |-> CHOOSE i \in DOMAIN MCOrder : MCOrder[i] = e]
MCRecents == {<<"deep.nds", "a.nds">>, <<"other.nds">>}

OnSd == {"sd", "dsi", "d.nds", "other.nds"}
OnFat == ({"fat"} \cup Entries) \ OnSd
MCNtr == [top |-> <<"fat", "fav", "recent", "slot2">>,
          uSD |-> 0, root |-> "fat", paths |-> OnFat]
MCDsiCart == [top |-> <<"fat", "sd", "fav", "recent", "slot2">>,
              uSD |-> 0, root |-> "fat", paths |-> OnFat \cup OnSd]
MCDsiSd == [top |-> <<"sd", "fav", "recent", "slot1">>,
            uSD |-> 4, root |-> "sd", paths |-> OnSd]
MCLayouts == {MCNtr, MCDsiCart, MCDsiSd}
MCModes == <<3, 2>>

(* Every entry of two names, with and without a title that sorts otherwise,  *)
(* of two dates, and the way up.                                             *)
MCSorted ==
    [up: {FALSE}, isDir: BOOLEAN, name: 1 .. 2, title: 0 .. 2, modified: 1 .. 2]
    \cup [up: {TRUE}, isDir: {TRUE}, name: {1}, title: {0}, modified: {2}]
ASSUME AnySortIsOrder ==
    \A sort \in {"name", "dateAsc", "dateDesc", "title"} : SortsRight(sort, MCSorted)
-----------------------------------------------------------------------------
(* What Gdi, UpperScreen and Covers say of themselves, evaluated over        *)
(* small screens, pictures and texts, every date of a clock's years and      *)
(* every character of the first plane.                                       *)
Paint == INSTANCE Gdi WITH Pitch <- 8
TopScreen == INSTANCE UpperScreen
Cover == INSTANCE Covers WITH ScreenWidth <- 6, ScreenHeight <- 4, MaxSource <- 12, MaxFile <- 2000

(* A screen of eight by six and a picture with holes.                        *)
SmallBuffer == [p \in 0 .. 47 |-> p + (IF (p % 3) = 0 THEN 32768 ELSE 0)]
SmallPicture == [p \in 0 .. 47 |-> 500 + p + (IF (p % 2) = 0 \/ (p % 5) = 0 THEN 32768 ELSE 0)]
SmallRects == {r \in (0 .. 7) \X (0 .. 3) \X (1 .. 8) \X (0 .. 3) : r[1] + r[3] <= 8}
LineWidths == {4, 5, 6, 8}

ASSUME RectanglesFilled ==
    \A r \in SmallRects : Paint!FillsRectangle(SmallBuffer, 5, 9, r[1], r[2], r[3], r[4])

ASSUME PicturesCopied ==
    \A r \in SmallRects, sw \in {4, 6, 8} :
       r[3] <= sw /\ (r[1] % 2) = 0 =>
          Paint!BlitsPicture(SmallBuffer, SmallPicture, sw, 5, r[1], r[2], r[3], r[4])

(* A part an odd number of pixels wide at an even place may draw its last    *)
(* column over what should show through.                                     *)
ASSUME MasksHold ==
    LET Odd(r) == (r[3] % 2) = 1 /\ (r[1] % 2) = 0
        Holds(r, sw, a) == Paint!MasksPicture(SmallBuffer, SmallPicture, a, sw, 5, r[1], r[2], r[3], r[4])
    IN /\ \A r \in SmallRects, sw \in LineWidths, a \in 0 .. 1 :
             r[3] <= sw /\ ~Odd(r) => Holds(r, sw, a)
       /\ \E r \in SmallRects, sw \in LineWidths, a \in 0 .. 1 : r[3] <= sw /\ ~Holds(r, sw, a)
       /\ Paint!maskBltWhole(SmallBuffer, SmallPicture, 0, 0, 4, 4) =
            Paint!MaskKept(SmallBuffer, SmallPicture, 4, 0, 0, 4, 4)
       /\ Paint!blendBlt(SmallBuffer, SmallPicture, 4, 0, 0, 4, 4, 100) =
            Paint!MaskKept(SmallBuffer, SmallPicture, 4, 0, 0, 4, 4)

ASSUME FramesDrawn ==
    /\ \A w \in 1 .. 5, h \in 1 .. 5 : Paint!FramesBorder(2, 1, w, h)
    /\ \A w \in 2 .. 7, h \in 2 .. 7 :
          Paint!ThickFramePoints(0, 0, w, h, 2) =
            Paint!FramePoints(0, 0, w, h)
              \cup (IF w > 2 /\ h > 2 THEN Paint!FramePoints(1, 1, w - 2, h - 2) ELSE {})
    /\ Paint!LinePoints(4, 4, 8, 8) = {<<4, 4>>, <<5, 5>>, <<6, 6>>, <<7, 7>>}

ASSUME ColoursBlended ==
    \A c \in {0, 31, 1000, 12345, 31744, 32767}, o \in {0, 7, 31, 992, 23456, 31744, 32767},
       opacity \in {0, 1, 33, 50, 99, 100} : Paint!BlendsChannels(c, o, opacity)

ASSUME TextInside ==
    \A text \in UNION {[1 .. n -> {0, 2, 3}] : n \in 0 .. 5}, w \in 3 .. 8, h \in 2 .. 6 :
       Paint!TextStaysInside(1, 1, w, h, text, 2)

ASSUME FramesPresented ==
    /\ Paint!PresentsWhatWasDrawn([back |-> <<<<1, 2>>, <<3, 4>>>>, front |-> <<<<5, 6>>, <<7, 8>>>>, layer |-> 2])
    /\ Paint!SpritesCover([p \in 0 .. 767 |-> p], 32, 8, 3, 4)

Moment(y, m, d, w, h) ==
    [year |-> y, month |-> m, day |-> d, weekday |-> w, hours |-> h, minutes |-> 7]
FreshBlank(s, c, k) == [started |-> s, counter |-> c, colon |-> k, disk |-> FALSE, drawn |-> <<>>]

ASSUME CalendarShown ==
    /\ TopScreen!DaysRight(1970 .. 2099)
    /\ \A d \in 1 .. 29, w \in 0 .. 6, y \in {2023, 2024} :
          TopScreen!CalendarLaysOut(Moment(y, 2, d, w, 0), <<134, 34>>, <<16, 14>>, 6)

ASSUME TimeShown ==
    /\ TopScreen!TwelveHoursName
    /\ \A h \in 0 .. 23, f \in {"", "MM/DD/YYYY", "YYYY/MM/DD"}, twelve \in BOOLEAN :
          /\ TopScreen!TextFits(Moment(2024, 10, 3, 2, h), f, twelve)
          /\ TopScreen!DigitsApart(Moment(2024, 10, 3, 2, h), f, 3, 4)

ASSUME BlanksCounted ==
    /\ \A c \in {0, 1, 30, 31}, s \in BOOLEAN, k \in BOOLEAN : TopScreen!DrawnEvery32(FreshBlank(s, c, k), TRUE)
    /\ \A first \in 0 .. 40, apart \in 0 .. 16 : TopScreen!TicksRise(first, first + apart, 16)

(* Cover files of nine by five, of five and of twelve columns.               *)
CoverFile(w, h, bits, compression, V(_, _)) ==
    [size |-> 702, mark |-> "BM", dib |-> 124, offset |-> 202, width |-> w, height |-> h,
     planes |-> 1, bits |-> bits, compression |-> compression, red |-> 11 .. 15, green |-> 5 .. 10,
     blue |-> 0 .. 4, alpha |-> {}, colours |-> 0,
     palette |-> [k \in 0 .. 15 |-> [r |-> 8 * k, g |-> 255 - k, b |-> k]],
     rows |-> [y \in 0 .. 4 |-> [x \in 0 .. (w - 1) |-> V(y, x)]]]
Numbers(y, x) == [n |-> y * 1000 + x * 77]
Indexes(y, x) == IF x > 1 THEN 0 ELSE (y * x) % 16
Bytes4(y, x) == [r |-> IF x > 1 THEN 0 ELSE y * 10, g |-> IF x > 0 THEN 0 ELSE 1, b |-> 0, a |-> y % 2]
Good16 == CoverFile(9, 5, 16, 3, Numbers)
Padded == CoverFile(5, 5, 32, 0, Bytes4)
CoverFiles == {Good16, Padded, CoverFile(9, -5, 16, 0, Numbers), CoverFile(9, 5, 4, 0, Indexes),
               CoverFile(12, 5, 16, 0, Numbers), CoverFile(9, 5, 16, 1, Numbers),
               CoverFile(9, 5, 32, 0, Bytes4), [Good16 EXCEPT !.green = 4 .. 10],
               [Good16 EXCEPT !.red = {11, 13}], [Good16 EXCEPT !.size = 240]}
GameRow(extension, gba, ds, codeValid) ==
    [isFile |-> TRUE, extension |-> extension, gba |-> gba, ds |-> ds, codeValid |-> codeValid]
OnCard == (<<"covers_code", "code">> :> Good16) @@ (<<"covers_name", "name">> :> Padded)
            @@ (<<"pico_gba", "code">> :> [Good16 EXCEPT !.compression = 1])
DsRow(codeValid) == GameRow("nds", FALSE, TRUE, codeValid)
WindowOf(c) == [path |-> "a", pixels |-> c.pixels, width |-> c.width, height |-> c.height, open |-> TRUE]
CoverWindows == {Cover!NoCover} \cup {WindowOf(Cover!loadCover(DsRow(v), OnCard)) : v \in BOOLEAN}

ASSUME CoversDecoded ==
    /\ \A f \in CoverFiles : Cover!DecodedFits(f)
    /\ \A f \in {f \in CoverFiles : Cover!Decodes(f)} : Cover!TrimsBlanks(Cover!decodeBmp15(f))
    /\ Cardinality({f \in CoverFiles : Cover!Decodes(f)}) = 6
    /\ Cover!trimTrailingBlankColumns(Cover!decodeBmp15(Padded)).width = 5

ASSUME CoversChosen ==
    /\ \A e \in {"nds", "gba", ""}, g, d, v \in BOOLEAN : Cover!CodeFirst(GameRow(e, g, d, v))
    /\ Cover!loadCover(DsRow(TRUE), OnCard).width = 6 /\ Cover!loadCover(DsRow(FALSE), OnCard).width = 5

ASSUME CoversDrawnWhole ==
    /\ \A w \in CoverWindows, enabled, v \in BOOLEAN, path \in {"a", "b"}, e \in {"nds", "txt"} :
          Cover!DrawnWhole(Cover!update(w, enabled, path, GameRow(e, FALSE, TRUE, v), OnCard), enabled)
    /\ \A w \in CoverWindows, x, y \in {-32768} \cup -8 .. 8 : Cover!DrawnInside(w, [x |-> x, y |-> y])

ASSUME PicturesKept ==
    LET theme == [Good16 EXCEPT !.rows = [y \in 0 .. 4 |-> [x \in 0 .. 9 |-> 31 * x + y]]]
        other == [theme EXCEPT !.rows[0][0] = 77]
    IN /\ Cover!ThemeAccepts(theme)
       /\ \A before, after \in {"n" :> theme, "n" :> other, "m" :> theme} :
             Cover!PoolKeeps(<<>>, "n", before, after)

ASSUME CharactersRead ==
    /\ \A c \in 0 .. 65535 : Paint!ReadsUtf8(c)
    (* A banner's title may end with a 0 or fill its room. *)
    /\ \A u \in [1 .. 3 -> {0, 65, 127, 128, 2047, 2048, 55357, 65535}] : Paint!ReadsTitle(u, 3)
    /\ \A s \in UNION {[1 .. n -> {1, 65, 130, 194, 226, 240}] : n \in 1 .. 4} : Paint!StaysInText(s)

GlyphOf(c) ==
    [code |-> c, width |-> 5, left |-> 0, right |-> 5, ascent |-> 4, descent |-> 1, offset |-> 0]
ASSUME CharactersFound ==
    \A glyphs \in UNION {[0 .. (n - 1) -> {GlyphOf(c) : c \in {0, 3, 63, 70}}] : n \in 1 .. 4},
       code \in {0, 1, 3, 63, 65, 70, 80} : Paint!FindsSorted(glyphs, code)
=============================================================================
